---- MODULE Spec2Model ----
(***************************************************************************)
(* A model of powercmd: the string matcher (src/powercmd.py), the command  *)
(* line tokenizers (src/powercmd/command_line.py,                          *)
(* src/powercmd/command_invocation.py) and command resolution              *)
(* (src/powercmd/cmd.py).                                                  *)
(*                                                                         *)
(* A Python str is a sequence of one-character strings; a Python exception *)
(* is the value of a "raised" field naming its class ("none" = no          *)
(* exception).                                                             *)
(***************************************************************************)
EXTENDS Integers, Sequences, FiniteSets, TLC

VARIABLES
    short,          \* TextMatchStrategy call: the SHORT / TEXT argument
    full,           \* TextMatchStrategy call: the FULL / PATTERN argument
    strat_result,   \* what the last strategy call returned or raised
    ms_text,         \* match_string call: the TEXT argument
    ms_possible,     \* match_string call: the POSSIBLE argument (distinct names)
    match_result,   \* what the last match_string call returned or raised
    cmdline,        \* the raw line handed to the tokenizers
    cl,             \* CommandLine(cmdline): the object built, or the exception
    htw,            \* cl.has_trailing_whitespace, once read
    ci,             \* CommandInvocation.from_cmdline(cmdline), or the exception
    last_exception, \* Cmd._last_exception (NoExc for None)
    called,         \* the handlers the last command entered, in call order
    printed,        \* what the last command printed
    ret,            \* what the last Cmd call returned or raised
    value_text,     \* the text handed to split_list or to a constructor
    value_result,   \* what the last split_list or constructor call gave
    loop,           \* where cmdloop is: not entered, at its prompt, or returned
    lines_read,     \* how many lines the prompt of cmdloop has returned
    members,        \* the names of the callable members of a Cmd subclass
    prefixes        \* what its get_command_prefixes returns, as a set of pairs

stratVars == <<short, full, strat_result>>
matchVars == <<ms_text, ms_possible, match_result>>
tokVars == <<cmdline, cl, htw, ci>>
cmdVars == <<last_exception, called, printed, ret>>
codecVars == <<value_text, value_result>>
loopVars == <<loop, lines_read>>
regVars == <<members, prefixes>>
vars == <<stratVars, matchVars, tokVars, cmdVars, codecVars, loopVars, regVars>>

----------------------------------------------------------------------------
(* Bounds *)

\* longest SHORT text handed to a matching strategy
MaxShortLen == 3
\* longest FULL text handed to a matching strategy
MaxFullLen == 4
\* longest TEXT handed to match_string
MaxTextLen == 2
\* longest name in POSSIBLE
MaxNameLen == 3
\* most names in POSSIBLE
MaxPossible == 2
\* longest raw line written character by character
MaxLineLen == 5
\* most argument words of a line written word by word
MaxArgs == 2
\* longest argument word of a line written word by word
MaxWordLen == 3
\* longest command word typed letter by letter
MaxTypedLen == 2
\* most argument words of a line typed to a Cmd
MaxCmdArgs == 2
\* most lines typed at the prompt of cmdloop
MaxLines == 4
\* longest text handed to split_list and the constructors letter by letter
MaxValueLen == 4
\* most methods a subclass of Cmd defines
MaxMethods == 3

----------------------------------------------------------------------------
(* Python str helpers *)

\* all strings over alphabet A of length at most n
StringsUpTo(A, n) == UNION {[1..k -> A] : k \in 0..n}

\* the subsets of S with at most n elements
RECURSIVE SubsetsUpTo(_, _)
SubsetsUpTo(S, n) ==
    IF n = 0 THEN {{}}
    ELSE LET smaller == SubsetsUpTo(S, n - 1)
         IN smaller \cup {P \cup {x} : P \in smaller, x \in S}

\* code point order of the characters the model uses (Python compares str
\* by code point): ' ' " ' = A B E F O S _ a ... z
CharOrder ==
    <<" ", "\"", "'", "0", "1", "2", "3", "=", "A", "B", "E", "F", "O", "S", "_",
      "a", "b", "c", "d", "e", "f", "g", "h", "i", "j", "k", "l", "m",
      "n", "o", "p", "q", "r", "s", "t", "u", "v", "w", "x", "y", "z">>

Ord(c) == CHOOSE i \in 1..Len(CharOrder) : CharOrder[i] = c

Min(a, b) == IF a < b THEN a ELSE b

\* Op(x), with x evaluated once before Op is applied to its value
With(x, Op(_)) == CHOOSE r \in {Op(v) : v \in {x}} : TRUE

\* s[n:]
DropN(s, n) == SubSeq(s, n + 1, Len(s))

\* s[:n]
TakeN(s, n) == SubSeq(s, 1, Min(n, Len(s)))

\* full.startswith(short)
startswith(fulltext, prefix) ==
    /\ Len(prefix) <= Len(fulltext)
    /\ TakeN(fulltext, Len(prefix)) = prefix

\* text.endswith(suffix)
endswith(text, suffix) ==
    /\ Len(suffix) <= Len(text)
    /\ DropN(text, Len(text) - Len(suffix)) = suffix

\* Python's a < b on str
RECURSIVE str_lt(_, _)
str_lt(a, b) ==
    IF a = <<>> THEN b # <<>>
    ELSE IF b = <<>> THEN FALSE
    ELSE IF Head(a) = Head(b) THEN str_lt(Tail(a), Tail(b))
    ELSE Ord(Head(a)) < Ord(Head(b))

\* sorted(S) for a finite set S of str
RECURSIVE sorted(_)
sorted(S) ==
    IF S = {} THEN <<>>
    ELSE LET m == CHOOSE x \in S : \A y \in S \ {x} : str_lt(x, y)
         IN <<m>> \o sorted(S \ {m})

\* the set of elements of a sequence
Range(s) == {s[i] : i \in 1..Len(s)}

\* text.split(sep) for a one-character sep: never an empty list
RECURSIVE split_at(_, _, _)
split_at(text, sep, acc) ==
    IF text = <<>> THEN <<acc>>
    ELSE IF Head(text) = sep THEN <<acc>> \o split_at(Tail(text), sep, <<>>)
    ELSE split_at(Tail(text), sep, Append(acc, Head(text)))

str_split(text, sep) == split_at(text, sep, <<>>)

\* os.path.commonprefix([a, b]): the longest common leading part
RECURSIVE commonprefix(_, _)
commonprefix(a, b) ==
    IF a = <<>> \/ b = <<>> \/ Head(a) # Head(b) THEN <<>>
    ELSE <<Head(a)>> \o commonprefix(Tail(a), Tail(b))

----------------------------------------------------------------------------
(* TextMatchStrategy (src/powercmd.py) *)

\* the values _prefixes_of yields, in order: text[i:] for i in range(len(text))
prefixes_of(text) == [i \in 1..Len(text) |-> DropN(text, i - 1)]

RECURSIVE matches_words(_, _)
RECURSIVE matches_words_from(_, _, _)

\* the `for word in words` loop of _matches_words, at the k-th word
matches_words_from(text, words, k) ==
    IF k > Len(words) THEN FALSE
    ELSE LET common_prefix == commonprefix(text, words[k])
             pre == prefixes_of(common_prefix)
         IN IF common_prefix = <<>> THEN FALSE
            ELSE IF common_prefix = text THEN TRUE
            ELSE IF \E i \in 1..Len(pre) :
                        matches_words(DropN(text, Len(pre[i])), Tail(words))
                 THEN TRUE
                 ELSE matches_words_from(text, words, k + 1)

matches_words(text, words) ==
    IF text = <<>> THEN TRUE
    ELSE matches_words_from(text, words, 1)

snake_case_matches(s, f) == matches_words(s, str_split(f, "_"))

\* the `for char in full` loop of fuzzy_matches: i is the position in full
\* (1-based), short_at the Python index into short (0-based).  Indexing
\* short past its end raises IndexError.
RECURSIVE fuzzy_loop(_, _, _, _)
fuzzy_loop(s, f, i, short_at) ==
    IF i > Len(f) THEN "False"
    ELSE IF short_at >= Len(s) THEN "IndexError"
    ELSE IF f[i] = s[short_at + 1]
         THEN IF short_at + 1 = Len(s) THEN "True"
              ELSE fuzzy_loop(s, f, i + 1, short_at + 1)
         ELSE fuzzy_loop(s, f, i + 1, short_at)

\* "True", "False", or the name of the exception raised
fuzzy_matches(s, f) == fuzzy_loop(s, f, 1, 0)

PyBool(b) == IF b THEN "True" ELSE "False"

\* TextMatchStrategy.Exact: lambda a, b: a == b
exact_matches(a, b) == a = b

\* TextMatchStrategy.Prefix: lambda short, full: full.startswith(short)
prefix_matches(s, f) == startswith(f, s)

----------------------------------------------------------------------------
(* What the strategies are documented to compute *)

\* q is p_1 p_2 ... p_k, each p_i a non-empty prefix of words[i], starting
\* at the first word and skipping none; ends[i] is where p_i ends in q
IsAbbreviation(q, words) ==
    \E k \in 1..Min(Len(words), Len(q)) :
        \E ends \in [1..k -> 1..Len(q)] :
            /\ ends[k] = Len(q)
            /\ \A i \in 1..(k - 1) : ends[i] < ends[i + 1]
            /\ \A i \in 1..k :
                   LET from == IF i = 1 THEN 1 ELSE ends[i - 1] + 1
                   IN startswith(words[i], SubSeq(q, from, ends[i]))

\* the characters of q appear in c in the same order
IsSubsequence(q, c) ==
    \E pos \in [1..Len(q) -> 1..Len(c)] :
        /\ \A i \in 1..(Len(q) - 1) : pos[i] < pos[i + 1]
        /\ \A i \in 1..Len(q) : c[pos[i]] = q[i]

----------------------------------------------------------------------------
(* Calls of the matching strategies on every pair of bounded strings *)

MatchAlphabet == {"a", "b", "_"}

NoResult == [op |-> "none", value |-> "none"]

\* an exception: its class, its message and the values the message names
Exc(cls, msg, key) == [cls |-> cls, msg |-> msg, key |-> key]
NoExc == Exc("none", "", <<>>)

\* the variables of the match_string calls, when no such call is made
IdleMatch ==
    /\ ms_text = <<>>
    /\ ms_possible = {}
    /\ match_result = NoResult

\* the variables of the tokenizers, when no line is tokenized
IdleTok ==
    /\ cmdline = <<>>
    /\ cl = NoResult
    /\ htw = "none"
    /\ ci = NoResult

\* a Cmd just constructed, before any command
IdleCmd ==
    /\ last_exception = NoExc
    /\ called = <<>>
    /\ printed = <<>>
    /\ ret = NoResult

\* the variables of the value constructors, when no value is decoded
IdleCodec ==
    /\ value_text = <<>>
    /\ value_result = NoResult

\* a Cmd whose cmdloop has not been entered
IdleLoop ==
    /\ loop = "idle"
    /\ lines_read = 0

\* one item of the mapping get_command_prefixes returns
PrefixItem(prefix, substitution) == [prefix |-> prefix, substitution |-> substitution]

\* Cmd.get_command_prefixes(): {'do_': ''}, as the list of its items
get_command_prefixes == <<PrefixItem(<<"d", "o", "_">>, <<>>)>>

\* the methods of Cmd whose names start with do_
CmdMethods ==
    {<<"d", "o", "_", "E", "O", "F">>,
     <<"d", "o", "_", "e", "x", "i", "t">>,
     <<"d", "o", "_", "g", "e", "t", "_", "e", "r", "r", "o", "r">>,
     <<"d", "o", "_", "h", "e", "l", "p">>}

\* TestImpl of test_cmd.py, which keeps the prefixes of Cmd
IdleReg ==
    /\ members = CmdMethods \cup {<<"d", "o", "_", "t", "e", "s", "t">>}
    /\ prefixes = get_command_prefixes

InitStrat ==
    /\ short \in StringsUpTo(MatchAlphabet, MaxShortLen)
    /\ full \in StringsUpTo(MatchAlphabet, MaxFullLen)
    /\ strat_result = NoResult
    /\ IdleMatch
    /\ IdleTok
    /\ IdleCmd
    /\ IdleCodec
    /\ IdleLoop
    /\ IdleReg

CallExact ==
    /\ strat_result' = [op |-> "exact", value |-> PyBool(exact_matches(short, full))]
    /\ UNCHANGED <<loopVars, regVars, codecVars, short, full, matchVars, tokVars, cmdVars>>

CallPrefix ==
    /\ strat_result' = [op |-> "prefix", value |-> PyBool(prefix_matches(short, full))]
    /\ UNCHANGED <<loopVars, regVars, codecVars, short, full, matchVars, tokVars, cmdVars>>

CallSnakeCase ==
    /\ strat_result' = [op |-> "snake case",
                        value |-> PyBool(snake_case_matches(short, full))]
    /\ UNCHANGED <<loopVars, regVars, codecVars, short, full, matchVars, tokVars, cmdVars>>

CallFuzzy ==
    /\ strat_result' = [op |-> "fuzzy", value |-> fuzzy_matches(short, full)]
    /\ UNCHANGED <<loopVars, regVars, codecVars, short, full, matchVars, tokVars, cmdVars>>

NextStrat == CallExact \/ CallPrefix \/ CallSnakeCase \/ CallFuzzy

SpecStrat == InitStrat /\ [][NextStrat]_vars

----------------------------------------------------------------------------
(* Claims about the matching strategies *)

\* C2: for every non-empty query, snake_case_matches(query, candidate) is
\* true exactly when query is a concatenation of non-empty prefixes of
\* consecutive underscore-delimited words of candidate, beginning with the
\* first word and skipping none.
C2_SnakeCaseIsAbbreviation ==
    (strat_result.op = "snake case" /\ short # <<>>)
        => strat_result.value = PyBool(IsAbbreviation(short, str_split(full, "_")))

\* C3: fuzzy_matches(query, candidate) returns true exactly when query is a
\* subsequence of candidate, false otherwise, and never raises.
C3_FuzzyIsSubsequence ==
    strat_result.op = "fuzzy"
        => strat_result.value = PyBool(IsSubsequence(short, full))

----------------------------------------------------------------------------
(* _match_string and match_string (src/powercmd.py) *)

\* the strategy objects: instances of TextMatchStrategy, not (name, matcher)
\* tuples
TextMatchStrategy(name, matcher) ==
    [cls |-> "TextMatchStrategy", name |-> name, matcher |-> matcher]

Exact == TextMatchStrategy("exact", "exact")
Prefix == TextMatchStrategy("prefix", "prefix")
SnakeCase == TextMatchStrategy("snake case", "snake_case_matches")
Fuzzy == TextMatchStrategy("fuzzy", "fuzzy_matches")

\* TextMatchStrategy.__call__ / a call of the matcher: "True", "False" or
\* the exception raised
call_matcher(matcher, t, e) ==
    CASE matcher = "exact" -> PyBool(exact_matches(t, e))
      [] matcher = "prefix" -> PyBool(prefix_matches(t, e))
      [] matcher = "snake_case_matches" -> PyBool(snake_case_matches(t, e))
      [] matcher = "fuzzy_matches" -> fuzzy_matches(t, e)

\* `name, match = obj` works on a 2-tuple; a TextMatchStrategy defines
\* neither __iter__ nor __getitem__, so unpacking it raises TypeError
CanUnpackPair(obj) == obj.cls = "tuple"

Returned(matches) == [op |-> "match_string", raised |-> "none", matches |-> matches]
Raised(exc) == [op |-> "match_string", raised |-> exc, matches |-> <<>>]

\* the `for name, match in match_strategies` loop, at the k-th strategy
RECURSIVE match_string_from(_, _, _, _)
match_string_from(t, poss, match_strategies, k) ==
    IF k > Len(match_strategies) THEN Returned(<<>>)
    ELSE IF ~CanUnpackPair(match_strategies[k]) THEN Raised("TypeError")
    ELSE LET match == match_strategies[k].matcher
             failing == {e \in poss : call_matcher(match, t, e) \notin {"True", "False"}}
             matches == sorted({e \in poss : call_matcher(match, t, e) = "True"})
         IN IF failing # {}
            THEN Raised(call_matcher(match, t, CHOOSE e \in failing : TRUE))
            ELSE IF matches # <<>> THEN Returned(matches)
            ELSE match_string_from(t, poss, match_strategies, k + 1)

\* _match_string(text, possible, match_strategies, quiet)
match_string_impl(t, poss, match_strategies) ==
    match_string_from(t, poss, match_strategies, 1)

\* match_string(text, possible, quiet=False)
match_string(t, poss) ==
    match_string_impl(t, poss, <<Exact, Prefix, SnakeCase, Fuzzy>>)

----------------------------------------------------------------------------
(* Calls of match_string on every bounded text and set of names *)

Names == StringsUpTo(MatchAlphabet, MaxNameLen)

InitMatch ==
    /\ ms_text \in StringsUpTo(MatchAlphabet, MaxTextLen)
    /\ ms_possible \in SubsetsUpTo(Names, MaxPossible)
    /\ match_result = NoResult
    /\ short = <<>>
    /\ full = <<>>
    /\ strat_result = NoResult
    /\ IdleTok
    /\ IdleCmd
    /\ IdleCodec
    /\ IdleLoop
    /\ IdleReg

CallMatchString ==
    /\ match_result.op = "none"
    /\ match_result' = match_string(ms_text, ms_possible)
    /\ UNCHANGED <<loopVars, regVars, codecVars, ms_text, ms_possible, stratVars, tokVars, cmdVars>>

NextMatch == CallMatchString

SpecMatch == InitMatch /\ [][NextMatch]_vars

----------------------------------------------------------------------------
(* Claims about match_string *)

\* the names a strategy accepts for a text
Accepted(strategy, t, poss) ==
    {e \in poss : call_matcher(strategy.matcher, t, e) = "True"}

Cascade == <<Exact, Prefix, SnakeCase, Fuzzy>>

\* the strategies that accept at least one name
Accepting(t, poss) == {k \in 1..Len(Cascade) : Accepted(Cascade[k], t, poss) # {}}

\* the names accepted by the first strategy that accepts any
FirstAccepted(t, poss) ==
    IF Accepting(t, poss) = {} THEN {}
    ELSE LET k == CHOOSE i \in Accepting(t, poss) :
                      \A j \in Accepting(t, poss) : i <= j
         IN Accepted(Cascade[k], t, poss)

\* C1: match_string tries Exact, Prefix, Snake-case, Fuzzy in that order and
\* returns exactly the names accepted by the first strategy that accepts at
\* least one; the result is empty only when no strategy accepts any name.
C1_FirstStrategyWins ==
    match_result.op = "match_string"
        => /\ match_result.raised = "none"
           /\ Range(match_result.matches) = FirstAccepted(ms_text, ms_possible)
           /\ (match_result.matches = <<>>) <=> (Accepting(ms_text, ms_possible) = {})

\* C4: match_string('', candidates) returns all candidates.
C4_EmptyQueryMatchesAll ==
    (match_result.op = "match_string" /\ ms_text = <<>>)
        => /\ match_result.raised = "none"
           /\ Range(match_result.matches) = ms_possible

----------------------------------------------------------------------------
(* Character classes *)

\* str.isspace() on one character
IsSpaceChar(c) == c \in {" ", "\t", "\n"}

\* the quote characters
IsQuoteChar(c) == c \in {"\"", "'"}

\* the character class [a-zA-Z0-9_], over the characters the model uses
WordChars ==
    {"_", "0", "1", "2", "E", "F", "O",
     "a", "b", "c", "d", "e", "f", "g", "h", "i", "j", "k", "l", "m",
     "n", "o", "p", "q", "r", "s", "t", "u", "v", "w", "x", "y", "z"}

IsWordChar(c) == c \in WordChars

\* text.isspace(): non-empty and all whitespace
isspace(t) == t # <<>> /\ \A i \in 1..Len(t) : IsSpaceChar(t[i])

----------------------------------------------------------------------------
(* shlex.split(cmdline), as CommandInvocation.from_cmdline calls it: POSIX
   mode, whitespace_split, no comment characters *)

\* shlex.read_token's state machine run over the whole text: state is "ws"
\* (between tokens), "word" (in a token) or the quote character of the open
\* quotation; token is the text collected so far, quoted whether the token
\* held a quotation, words the tokens already returned
RECURSIVE shlex_scan(_, _, _, _, _, _)
shlex_scan(t, i, state, token, quoted, words) ==
    IF i > Len(t)
    THEN IF state = "ws" THEN [raised |-> NoExc, words |-> words]
         ELSE IF state = "word"
              THEN [raised |-> NoExc,
                    words |-> IF token # <<>> \/ quoted THEN Append(words, token)
                              ELSE words]
              ELSE [raised |-> Exc("ValueError", "No closing quotation", <<>>),
                    words |-> <<>>]
    ELSE LET c == t[i] IN
         IF state = "ws"
         THEN IF IsSpaceChar(c) THEN shlex_scan(t, i + 1, "ws", <<>>, FALSE, words)
              ELSE IF IsQuoteChar(c) THEN shlex_scan(t, i + 1, c, <<>>, FALSE, words)
              ELSE shlex_scan(t, i + 1, "word", <<c>>, FALSE, words)
         ELSE IF state = "word"
         THEN IF IsSpaceChar(c)
              THEN shlex_scan(t, i + 1, "ws", <<>>, FALSE,
                              IF token # <<>> \/ quoted THEN Append(words, token)
                              ELSE words)
              ELSE IF IsQuoteChar(c) THEN shlex_scan(t, i + 1, c, token, quoted, words)
              ELSE shlex_scan(t, i + 1, "word", Append(token, c), quoted, words)
         ELSE IF c = state THEN shlex_scan(t, i + 1, "word", token, TRUE, words)
              ELSE shlex_scan(t, i + 1, state, Append(token, c), TRUE, words)

shlex_split(t) == shlex_scan(t, 1, "ws", <<>>, FALSE, <<>>)

----------------------------------------------------------------------------
(* The word classification shared by both tokenizers *)

\* the length of the longest leading run of [a-zA-Z0-9_] characters
RECURSIVE leading_word_chars(_)
leading_word_chars(w) ==
    IF w = <<>> \/ ~IsWordChar(Head(w)) THEN 0
    ELSE 1 + leading_word_chars(Tail(w))

\* re.match with the pattern '^[a-zA-Z0-9_]*=': an empty name is accepted
re_match_named_star(w) ==
    LET n == leading_word_chars(w)
    IN n < Len(w) /\ w[n + 1] = "="

\* re.match(r'^[a-zA-Z0-9_]+=', word)
re_match_named(w) ==
    LET n == leading_word_chars(w)
    IN n >= 1 /\ n < Len(w) /\ w[n + 1] = "="

\* the position of the first sep in w, 0 when there is none
RECURSIVE find_char(_, _, _)
find_char(w, sep, i) ==
    IF i > Len(w) THEN 0
    ELSE IF w[i] = sep THEN i
    ELSE find_char(w, sep, i + 1)

\* name, value = word.split('=', maxsplit=1), for a word that holds a '='
split_name_value(w) ==
    LET eq == find_char(w, "=", 1)
    IN [name |-> TakeN(w, eq - 1), value |-> DropN(w, eq)]

----------------------------------------------------------------------------
(* CommandInvocation.from_cmdline (src/powercmd/command_invocation.py) *)

Invocation(exc, command, named_args, free_args) ==
    [op |-> "from_cmdline", raised |-> exc, command |-> command,
     named_args |-> named_args, free_args |-> free_args]

\* `name in named_args` for the ordered mapping kept as a sequence of pairs
has_key(named_args, name) == \E i \in 1..Len(named_args) : named_args[i].name = name

\* `raise Cmd.CancelCmd(...)`: the module neither imports nor defines Cmd,
\* so evaluating the name raises NameError before any CancelCmd is built
raise_CancelCmd(name) == Exc("NameError", "name 'Cmd' is not defined", <<>>)

\* the `for word in words[1:]` loop, at word k
RECURSIVE from_cmdline_loop(_, _, _, _)
from_cmdline_loop(words, k, named_args, free_args) ==
    IF k > Len(words) THEN Invocation(NoExc, words[1], named_args, free_args)
    ELSE IF re_match_named(words[k])
         THEN LET nv == split_name_value(words[k])
              IN IF has_key(named_args, nv.name)
                 THEN Invocation(raise_CancelCmd(nv.name), <<>>, <<>>, <<>>)
                 ELSE from_cmdline_loop(words, k + 1, Append(named_args, nv), free_args)
         ELSE from_cmdline_loop(words, k + 1, named_args, Append(free_args, words[k]))

from_cmdline(line) ==
    With(shlex_split(line), LAMBDA sp :
        IF sp.raised # NoExc THEN Invocation(sp.raised, <<>>, <<>>, <<>>)
        ELSE IF sp.words = <<>> THEN Invocation(NoExc, <<>>, <<>>, <<>>)
        ELSE from_cmdline_loop(sp.words, 2, <<>>, <<>>))

----------------------------------------------------------------------------
(* split_cmdline and drop_enclosing_quotes of powercmd.split_list, which
   CommandLine imports; written from the tokenizer's contract: split on
   whitespace outside matching quotes, an unmatched quote being an error
   unless allow_unmatched; strip the quotes of a word enclosed in one pair *)

\* quote is the open quote character, or "" outside quotes; token the raw
\* word collected so far, words the raw words already split off
RECURSIVE split_cmdline_scan(_, _, _, _, _, _)
split_cmdline_scan(t, i, quote, token, words, allow_unmatched) ==
    IF i > Len(t)
    THEN IF quote # "" /\ ~allow_unmatched
         THEN [raised |-> Exc("ValueError", "text contains unmatched delimiters", <<>>),
               words |-> <<>>]
         ELSE [raised |-> NoExc,
               words |-> IF token # <<>> THEN Append(words, token) ELSE words]
    ELSE LET c == t[i] IN
         IF quote # ""
         THEN split_cmdline_scan(t, i + 1, IF c = quote THEN "" ELSE quote,
                                 Append(token, c), words, allow_unmatched)
         ELSE IF IsQuoteChar(c)
         THEN split_cmdline_scan(t, i + 1, c, Append(token, c), words, allow_unmatched)
         ELSE IF IsSpaceChar(c)
         THEN split_cmdline_scan(t, i + 1, "", <<>>,
                                 IF token # <<>> THEN Append(words, token) ELSE words,
                                 allow_unmatched)
         ELSE split_cmdline_scan(t, i + 1, "", Append(token, c), words, allow_unmatched)

split_cmdline(t, allow_unmatched) ==
    split_cmdline_scan(t, 1, "", <<>>, <<>>, allow_unmatched)

\* the word is one quotation: it opens with a quote character, ends with the
\* same character, and that character occurs nowhere in between
is_enclosed(w) ==
    /\ Len(w) >= 2
    /\ IsQuoteChar(w[1])
    /\ w[Len(w)] = w[1]
    /\ \A i \in 2..(Len(w) - 1) : w[i] # w[1]

drop_enclosing_quotes(w) ==
    IF is_enclosed(w) THEN SubSeq(w, 2, Len(w) - 1) ELSE w

----------------------------------------------------------------------------
(* CommandLine (src/powercmd/command_line.py) *)

NamedArg(name, value) == [kind |-> "NamedArg", name |-> name, value |-> value]
PositionalArg(value) == [kind |-> "PositionalArg", name |-> <<>>, value |-> value]

CommandLineObj(exc, raw_text, quoted_words, command, args) ==
    [op |-> "CommandLine", raised |-> exc, raw_text |-> raw_text,
     quoted_words |-> quoted_words, command |-> command, args |-> args]

\* split_cmdline called with its default, allow_unmatched=False
init_allow_unmatched_off == FALSE

\* the allow_unmatched argument __init__ passes to split_cmdline
init_allow_unmatched == TRUE

\* words = self.quoted_words: the quotes are never dropped
unquoted_words_kept(quoted_words) == quoted_words

\* words = [drop_enclosing_quotes(word) for word in self.quoted_words]
unquoted_words(quoted_words) ==
    [i \in 1..Len(quoted_words) |-> drop_enclosing_quotes(quoted_words[i])]

\* `name in self.named_args`: the property builds a dict of the NamedArgs
in_named_args(args, name) ==
    \E i \in 1..Len(args) : args[i].kind = "NamedArg" /\ args[i].name = name

\* the `for word in words[1:]` loop of __init__, at word k
RECURSIVE init_loop(_, _, _, _, _)
init_loop(raw_text, quoted_words, words, k, args) ==
    IF k > Len(words)
    THEN CommandLineObj(NoExc, raw_text, quoted_words, words[1], args)
    ELSE IF re_match_named(words[k])
         THEN LET nv == split_name_value(words[k])
              IN IF in_named_args(args, nv.name)
                 THEN CommandLineObj(Exc("ValueError", "multiple values for key", nv.name),
                                     <<>>, <<>>, <<>>, <<>>)
                 ELSE init_loop(raw_text, quoted_words, words, k + 1,
                                Append(args, NamedArg(nv.name, nv.value)))
         ELSE init_loop(raw_text, quoted_words, words, k + 1,
                        Append(args, PositionalArg(words[k])))

\* CommandLine.__init__(cmdline)
CommandLine_init(line) ==
    LET sp == split_cmdline(line, init_allow_unmatched)
        words == unquoted_words(sp.words)
    IN IF sp.raised # NoExc THEN CommandLineObj(sp.raised, <<>>, <<>>, <<>>, <<>>)
       ELSE IF words = <<>> THEN CommandLineObj(NoExc, line, sp.words, <<>>, <<>>)
       ELSE init_loop(line, sp.words, words, 2, <<>>)

\* the named_args property, as the ordered list of its (name, value) items
named_args(c) ==
    SelectSeq(c.args, LAMBDA arg : arg.kind = "NamedArg")

\* the free_args property
free_args(c) ==
    LET pos == SelectSeq(c.args, LAMBDA arg : arg.kind = "PositionalArg")
    IN [i \in 1..Len(pos) |-> pos[i].value]

\* has_trailing_whitespace without its first test: the empty text counts as
\* trailing whitespace
has_trailing_whitespace_empty(c) ==
    IF c.raw_text = <<>> \/ isspace(c.raw_text) THEN "True"
    ELSE IF ~(Len(c.quoted_words) > 0) THEN "AssertionError"
    ELSE PyBool(~endswith(c.raw_text, c.quoted_words[Len(c.quoted_words)]))

\* the has_trailing_whitespace property: "True", "False" or the exception
has_trailing_whitespace(c) ==
    IF c.raw_text = <<>> THEN "False"
    ELSE IF isspace(c.raw_text) THEN "True"
    ELSE IF ~(Len(c.quoted_words) > 0) THEN "AssertionError"
    ELSE PyBool(~endswith(c.raw_text, c.quoted_words[Len(c.quoted_words)]))

----------------------------------------------------------------------------
(* Tokenizing every bounded line with both tokenizers *)

TokAlphabet == {"a", "=", " ", "\"", "'"}

\* lines written character by character
CharLines == StringsUpTo(TokAlphabet, MaxLineLen)

\* argument words without blanks or quotes
ArgWords == StringsUpTo({"a", "="}, MaxWordLen) \ {<<>>}

RECURSIVE join_words(_)
join_words(ws) ==
    IF ws = <<>> THEN <<>> ELSE <<" ">> \o Head(ws) \o join_words(Tail(ws))

\* lines written word by word: the command a, then up to MaxArgs words
WordLines == {<<"a">> \o join_words(ws) : ws \in StringsUpTo(ArgWords, MaxArgs)}

InitTok ==
    /\ cmdline \in CharLines \cup WordLines
    /\ cl = NoResult
    /\ htw = "none"
    /\ ci = NoResult
    /\ short = <<>>
    /\ full = <<>>
    /\ strat_result = NoResult
    /\ IdleMatch
    /\ IdleCmd
    /\ IdleCodec
    /\ IdleLoop
    /\ IdleReg

NewCommandLine ==
    /\ cl = NoResult
    /\ cl' = CommandLine_init(cmdline)
    /\ UNCHANGED <<loopVars, regVars, codecVars, cmdline, htw, ci, stratVars, matchVars, cmdVars>>

ReadHasTrailingWhitespace ==
    /\ cl # NoResult
    /\ cl.raised = NoExc
    /\ htw = "none"
    /\ htw' = has_trailing_whitespace(cl)
    /\ UNCHANGED <<loopVars, regVars, codecVars, cmdline, cl, ci, stratVars, matchVars, cmdVars>>

FromCmdline ==
    /\ ci = NoResult
    /\ ci' = from_cmdline(cmdline)
    /\ UNCHANGED <<loopVars, regVars, codecVars, cmdline, cl, htw, stratVars, matchVars, cmdVars>>

NextTok == NewCommandLine \/ ReadHasTrailingWhitespace \/ FromCmdline

SpecTok == InitTok /\ [][NextTok]_vars

----------------------------------------------------------------------------
(* Claims about the tokenizers *)

\* a word is named when some non-empty run of [A-Za-z0-9_] characters at its
\* start is directly followed by '='; k is the length of that run
NameLengths(w) ==
    {k \in 1..(Len(w) - 1) : w[k + 1] = "=" /\ \A j \in 1..k : IsWordChar(w[j])}

\* the token a word stands for
TokenOf(w) ==
    IF NameLengths(w) = {} THEN PositionalArg(w)
    ELSE LET k == CHOOSE n \in NameLengths(w) : TRUE
         IN NamedArg(TakeN(w, k), DropN(w, k + 1))

\* the tokens of the words after the first, in the order of the words
TokensOf(words) == [i \in 1..(Len(words) - 1) |-> TokenOf(words[i + 1])]

\* the words CommandLine classifies: the raw words, enclosing quotes dropped
WordsOfLine(line) == unquoted_words(split_cmdline(line, TRUE).words)

\* C6: the first word is the command (the empty string for an empty line);
\* every remaining word is, in the order of the line, a Named{name, value}
\* split at its first '=' when it starts with one or more [A-Za-z0-9_]
\* followed by '=', and a Positional otherwise.  from_cmdline keeps the same
\* tokens as an ordered mapping and an ordered list.
C6_WordsClassifiedInOrder ==
    /\ (cl # NoResult /\ cl.raised = NoExc)
           => LET words == WordsOfLine(cmdline)
              IN /\ cl.command = IF words = <<>> THEN <<>> ELSE words[1]
                 /\ cl.args = TokensOf(words)
    /\ (ci # NoResult /\ ci.raised = NoExc)
           => LET words == shlex_split(cmdline).words
                  tokens == TokensOf(words)
                  named == SelectSeq(tokens, LAMBDA t : t.kind = "NamedArg")
                  positional == SelectSeq(tokens, LAMBDA t : t.kind = "PositionalArg")
              IN /\ ci.command = IF words = <<>> THEN <<>> ELSE words[1]
                 /\ ci.named_args =
                        [i \in 1..Len(named) |->
                            [name |-> named[i].name, value |-> named[i].value]]
                 /\ ci.free_args = [i \in 1..Len(positional) |-> positional[i].value]

\* a line whose CommandLine holds a positional token before a named one
C6_Witness ==
    /\ cl # NoResult
    /\ cl.raised = NoExc
    /\ \E i, j \in 1..Len(cl.args) :
           /\ i < j
           /\ cl.args[i].kind = "PositionalArg"
           /\ cl.args[j].kind = "NamedArg"
           /\ cl.args[j].value # <<>>

\* the keys that two named words of the line carry
DuplicateKeys(words) ==
    LET tokens == TokensOf(words)
    IN {tokens[i].name : i \in {n \in 1..Len(tokens) :
            /\ tokens[n].kind = "NamedArg"
            /\ \E m \in 1..Len(tokens) :
                   m # n /\ tokens[m].kind = "NamedArg" /\ tokens[m].name = tokens[n].name}}

\* the exception is a duplicate-named-argument error naming one of keys
IsDuplicateError(exc, keys) ==
    /\ exc.cls \in {"ValueError", "CancelCmd", "SyntaxError", "InvalidInput"}
    /\ exc.msg = "multiple values for key"
    /\ exc.key \in keys

\* C7: tokenizing a line in which two named words carry the same key fails
\* with a duplicate-named-argument error naming that key, and produces
\* nothing.
C7_DuplicateKeyRejected ==
    /\ (cl # NoResult /\ DuplicateKeys(WordsOfLine(cmdline)) # {})
           => IsDuplicateError(cl.raised, DuplicateKeys(WordsOfLine(cmdline)))
    /\ (ci # NoResult /\ shlex_split(cmdline).raised = NoExc
            /\ DuplicateKeys(shlex_split(cmdline).words) # {})
           => IsDuplicateError(ci.raised, DuplicateKeys(shlex_split(cmdline).words))

LastWord(c) == c.quoted_words[Len(c.quoted_words)]

\* C8, as stated: has_trailing_whitespace is true if the raw text is empty
\* or all whitespace, or if it does not end with the last raw word, and
\* false otherwise.
C8_TrailingWhitespaceAsStated ==
    htw # "none"
        => htw = PyBool(\/ cmdline = <<>>
                        \/ isspace(cmdline)
                        \/ (cl.quoted_words # <<>> /\ ~endswith(cmdline, LastWord(cl))))

\* C8, amended: has_trailing_whitespace is false for the empty raw text;
\* for a non-empty raw text it is true if the text is all whitespace or does
\* not end with the last raw word, and false otherwise.
C8_TrailingWhitespaceAmended ==
    htw # "none"
        => htw = PyBool(/\ cmdline # <<>>
                        /\ \/ isspace(cmdline)
                           \/ (cl.quoted_words # <<>> /\ ~endswith(cmdline, LastWord(cl))))

\* has_trailing_whitespace read on the CommandLine of the empty line
C8_Witness == cl # NoResult /\ cmdline = <<>> /\ htw = "False"

\* the quote character open at the end of the text, "" when every quote is
\* closed
RECURSIVE OpenQuote(_, _)
OpenQuote(t, q) ==
    IF t = <<>> THEN q
    ELSE IF q = "" THEN OpenQuote(Tail(t), IF IsQuoteChar(Head(t)) THEN Head(t) ELSE "")
    ELSE OpenQuote(Tail(t), IF Head(t) = q THEN "" ELSE q)

Unterminated(t) == OpenQuote(t, "") # ""

\* position i of the line is a blank outside quotes
IsSeparator(line, i) == IsSpaceChar(line[i]) /\ OpenQuote(TakeN(line, i - 1), "") = ""

\* the maximal runs of positions that are not separators, as <<first, last>>
WordSpans(line) ==
    LET n == Len(line)
        seps == {i \in 1..n : IsSeparator(line, i)}
        starts == {i \in (1..n) \ seps : i = 1 \/ (i - 1) \in seps}
        end_of(s) == CHOOSE e \in s..n :
                         /\ \A k \in s..e : k \notin seps
                         /\ e = n \/ (e + 1) \in seps
    IN {<<s, end_of(s)>> : s \in starts}

\* the text of a token as it stood in the word
TextOf(arg) ==
    IF arg.kind = "NamedArg" THEN arg.name \o <<"=">> \o arg.value ELSE arg.value

\* the words of a CommandLine: the command, then the text of each token
WordsOf(c) ==
    IF c.quoted_words = <<>> THEN <<>>
    ELSE <<c.command>> \o [i \in 1..Len(c.args) |-> TextOf(c.args[i])]

\* the word is one quotation
EnclosedInOnePair(w) ==
    \E q \in {"\"", "'"} :
        /\ Len(w) >= 2
        /\ w[1] = q
        /\ w[Len(w)] = q
        /\ q \notin {w[i] : i \in 2..(Len(w) - 1)}

IsUnterminatedError(exc) ==
    /\ exc.cls = "ValueError"
    /\ exc.msg \in {"No closing quotation", "text contains unmatched delimiters"}

----------------------------------------------------------------------------
(* match_string of powercmd.match_string, which cmd.py imports; written from
   the Matcher's contract: the strategies exact, prefix, snake-case
   abbreviation and fuzzy subsequence in that order, the result that of the
   first strategy accepting any candidate, sorted *)

\* query is a run of non-empty prefixes of consecutive words, from the first
RECURSIVE abbreviates(_, _)
abbreviates(query, words) ==
    /\ query # <<>>
    /\ words # <<>>
    /\ \E n \in 1..Min(Len(query), Len(Head(words))) :
           /\ TakeN(query, n) = TakeN(Head(words), n)
           /\ n = Len(query) \/ abbreviates(DropN(query, n), Tail(words))

\* the characters of query appear in candidate in the same order
RECURSIVE subsequence(_, _)
subsequence(query, candidate) ==
    IF query = <<>> THEN TRUE
    ELSE IF candidate = <<>> THEN FALSE
    ELSE IF Head(query) = Head(candidate) THEN subsequence(Tail(query), Tail(candidate))
    ELSE subsequence(query, Tail(candidate))

\* the candidates strategy k accepts for the query
resolve_accepted(k, query, candidates) ==
    {c \in candidates :
        CASE k = 1 -> query = c
          [] k = 2 -> startswith(c, query)
          [] k = 3 -> abbreviates(query, str_split(c, "_"))
          [] k = 4 -> subsequence(query, c)}

RECURSIVE resolve_from(_, _, _)
resolve_from(k, query, candidates) ==
    IF k > 4 THEN <<>>
    ELSE With(resolve_accepted(k, query, candidates), LAMBDA accepted :
             IF accepted # {} THEN sorted(accepted)
             ELSE resolve_from(k + 1, query, candidates))

resolve(query, candidates) == resolve_from(1, query, candidates)

----------------------------------------------------------------------------
(* Cmd (src/powercmd/cmd.py), for the command class of test_cmd.py
       class TestImpl(Cmd):
           def do_test(self, first: str, second: int): pass *)

\* Python values: a str, an int, None or True
PyStr(s) == [type |-> "str", value |-> s]
PyInt(n) == [type |-> "int", value |-> <<ToString(n)>>]
PyNone == [type |-> "NoneType", value |-> <<>>]
PyTrue == [type |-> "bool", value |-> <<"True">>]
PyFalse == [type |-> "bool", value |-> <<"False">>]

\* inspect.Parameter.empty: the default of a parameter that declares none
NO_DEFAULT == [type |-> "empty", value |-> <<>>]

Parameter(name, type, default) == [name |-> name, type |-> type, default |-> default]

\* Command(name, handler); parameters is what Command.parameters reads off
\* the handler's signature, and the name stands for the handler
Command(name, parameters) == [name |-> name, parameters |-> parameters]

\* a raised exception in place of a Command
NoCommand == Command(<<>>, <<>>)

\* _get_all_commands(): the do_ methods of Cmd and TestImpl in the order of
\* inspect.getmembers, each under its name without the do_ prefix
get_all_commands ==
    <<Command(<<"E", "O", "F">>, <<>>),
      Command(<<"e", "x", "i", "t">>, <<>>),
      Command(<<"g", "e", "t", "_", "e", "r", "r", "o", "r">>, <<>>),
      Command(<<"h", "e", "l", "p">>,
              <<Parameter(<<"t", "o", "p", "i", "c">>, "str", PyStr(<<>>))>>),
      Command(<<"t", "e", "s", "t">>,
              <<Parameter(<<"f", "i", "r", "s", "t">>, "str", NO_DEFAULT),
                Parameter(<<"s", "e", "c", "o", "n", "d">>, "int", NO_DEFAULT)>>)>>

\* the keys of the commands mapping
command_names(cmds) == {cmds[i].name : i \in 1..Len(cmds)}

\* cmds[name]
command_at(cmds, name) == cmds[CHOOSE i \in 1..Len(cmds) : cmds[i].name = name]

\* choose_cmd without the test for more than one match
choose_cmd_first(short_cmd) ==
    With(resolve(short_cmd, command_names(get_all_commands)), LAMBDA matches :
        IF matches = <<>>
        THEN [raised |-> Exc("SyntaxError", "no such command", <<short_cmd>>),
              cmd |-> NoCommand]
        ELSE [raised |-> NoExc, cmd |-> command_at(get_all_commands, matches[1])])

\* choose_cmd(short_cmd, verbose)
choose_cmd(short_cmd) ==
    With(resolve(short_cmd, command_names(get_all_commands)), LAMBDA matches :
        IF matches = <<>>
        THEN [raised |-> Exc("SyntaxError", "no such command", <<short_cmd>>),
              cmd |-> NoCommand]
        ELSE IF Len(matches) > 1
        THEN [raised |-> Exc("SyntaxError", "ambigious command", <<short_cmd>> \o matches),
              cmd |-> NoCommand]
        ELSE [raised |-> NoExc, cmd |-> command_at(get_all_commands, matches[1])])

\* the decimal digits the model uses
IsDigit(c) == c \in {"0", "1", "2", "3"}

DigitValue(c) == Ord(c) - Ord("0")

\* str.strip()
RECURSIVE lstrip(_)
lstrip(t) == IF t # <<>> /\ IsSpaceChar(Head(t)) THEN lstrip(Tail(t)) ELSE t

RECURSIVE rstrip(_)
rstrip(t) ==
    IF t # <<>> /\ IsSpaceChar(t[Len(t)]) THEN rstrip(TakeN(t, Len(t) - 1)) ELSE t

strip(t) == rstrip(lstrip(t))

\* the value of a run of digits and single underscores
RECURSIVE digits_value(_, _)
digits_value(ds, acc) ==
    IF ds = <<>> THEN acc
    ELSE IF Head(ds) = "_" THEN digits_value(Tail(ds), acc)
    ELSE digits_value(Tail(ds), 10 * acc + DigitValue(Head(ds)))

\* int(value): blanks stripped, an optional sign, then digits that single
\* underscores may separate
int_ctor(value) ==
    LET s == strip(value)
        signed == s # <<>> /\ s[1] \in {"+", "-"}
        body == IF signed THEN Tail(s) ELSE s
        valid == /\ body # <<>>
                 /\ IsDigit(body[1])
                 /\ IsDigit(body[Len(body)])
                 /\ \A i \in 1..Len(body) : IsDigit(body[i]) \/ body[i] = "_"
                 /\ \A i \in 1..(Len(body) - 1) : ~(body[i] = "_" /\ body[i + 1] = "_")
    IN IF ~valid
       THEN [raised |-> Exc("ValueError", "invalid literal for int() with base 10",
                            <<value>>),
             value |-> PyNone]
       ELSE [raised |-> NoExc,
             value |-> PyInt(IF signed /\ s[1] = "-"
                             THEN 0 - digits_value(body, 0)
                             ELSE digits_value(body, 0))]

\* a Python float with an integral value
PyFloat(n) == [type |-> "float", value |-> <<ToString(n)>>]

\* float(value), for texts without a point, an exponent or the letters of
\* inf and nan: the decimal literals int accepts
float_ctor(value) ==
    With(int_ctor(value), LAMBDA made :
        IF made.raised # NoExc
        THEN [raised |-> Exc("ValueError", "could not convert string to float", <<value>>),
              value |-> PyNone]
        ELSE [raised |-> NoExc, value |-> [made.value EXCEPT !.type = "float"]])

\* lambda value: value not in ('', '0', 'false', 'False')
bool_ctor(value) ==
    [raised |-> NoExc,
     value |-> IF value \notin {<<>>, <<"0">>, <<"f", "a", "l", "s", "e">>,
                                <<"F", "a", "l", "s", "e">>}
               THEN PyTrue ELSE PyFalse]

\* get_constructor(annotation)(value), for the annotations of the commands:
\* bool has the constructor above; str, int and float are their own
get_constructor(annotation, value) ==
    CASE annotation = "bool" -> bool_ctor(value)
      [] annotation = "str" -> [raised |-> NoExc, value |-> PyStr(value)]
      [] annotation = "int" -> int_ctor(value)
      [] annotation = "float" -> float_ctor(value)

----------------------------------------------------------------------------
(* split_list (src/powercmd/split_list.py) and the constructors of
   typing.List and typing.Tuple (src/powercmd/cmd.py) *)

\* the keys of _DELIMITERS
is_delimiter(char) == char \in {"(", "[", "{", "\"", "'"}

\* _DELIMITERS[char]
closing_delimiter(char) ==
    CASE char = "(" -> ")"
      [] char = "[" -> "]"
      [] char = "{" -> "}"
      [] char = "\"" -> "\""
      [] char = "'" -> "'"

\* text[a:b] for 0-based a <= b, as the characters a+1..b
slice(text, a, b) == SubSeq(text, a + 1, Min(b, Len(text)))

Pieces(exc, pieces) == [raised |-> exc, pieces |-> pieces]

\* the `for idx, char in enumerate(text)` loop of split_list at 0-based idx,
\* then the test for unmatched delimiters and the last piece; pieces are the
\* texts yielded so far
RECURSIVE split_list_scan(_, _, _, _, _, _, _)
split_list_scan(text, separator, allow_unmatched, idx, stack, start, pieces) ==
    IF idx >= Len(text)
    THEN IF ~allow_unmatched /\ stack # <<>>
         THEN Pieces(Exc("ValueError", "text contains unmatched delimiters", <<stack, text>>),
                     pieces)
         ELSE Pieces(NoExc, Append(pieces, slice(text, start, Len(text))))
    ELSE With(text[idx + 1], LAMBDA char :
        IF stack # <<>>
        THEN IF stack[Len(stack)] = char
             THEN split_list_scan(text, separator, allow_unmatched, idx + 1,
                                  TakeN(stack, Len(stack) - 1), start, pieces)
             ELSE split_list_scan(text, separator, allow_unmatched, idx + 1,
                                  stack, start, pieces)
        ELSE IF is_delimiter(char)
        THEN split_list_scan(text, separator, allow_unmatched, idx + 1,
                             Append(stack, closing_delimiter(char)), start, pieces)
        ELSE IF <<char>> = separator
        THEN split_list_scan(text, separator, allow_unmatched, idx + 1,
                             stack, idx + 1, Append(pieces, slice(text, start, idx)))
        ELSE split_list_scan(text, separator, allow_unmatched, idx + 1,
                             stack, start, pieces))

\* split_list(text, separator, allow_unmatched), run to its end: the pieces
\* it yields and the exception that ends it, if any
split_list(text, separator, allow_unmatched) ==
    IF Len(separator) # 1
    THEN Pieces(Exc("ValueError", "only single-character separators are supported", <<>>),
                <<>>)
    ELSE IF is_delimiter(separator[1])
    THEN Pieces(Exc("ValueError", "delimiters are not supported", <<>>), <<>>)
    ELSE split_list_scan(text, separator, allow_unmatched, 0, <<>>, 0, <<>>)

\* the default of split_list's separator
default_separator == <<",">>

\* typing.List[...] and typing.Tuple[...]
GenericList(args) == [generic |-> "List", args |-> args]
GenericTuple(args) == [generic |-> "Tuple", args |-> args]

PyList(items) == [type |-> "list", items |-> items]
PyTuple(items) == [type |-> "tuple", items |-> items]

Constructed(exc, value) == [raised |-> exc, value |-> value]

IndexError == Exc("IndexError", "string index out of range", <<>>)

\* text[1:-1] if the text starts with open and ends with close; text[0] of
\* the empty text is the caller's IndexError
unwrap(text, open, close) ==
    IF text[1] = open /\ text[Len(text)] = close THEN slice(text, 1, Len(text) - 1)
    ELSE text

\* the constructors applied to the pieces in order, up to the first that
\* raises: types[i] constructs pieces[i]
RECURSIVE construct_items(_, _, _, _)
construct_items(types, pieces, i, items) ==
    IF i > Min(Len(types), Len(pieces)) THEN Constructed(NoExc, items)
    ELSE With(get_constructor(types[i], pieces[i]), LAMBDA made :
             IF made.raised # NoExc THEN Constructed(made.raised, PyNone)
             ELSE construct_items(types, pieces, i + 1, Append(items, made.value)))

\* construct_list(text) of _get_list_ctor: the list comprehension constructs
\* each piece as split_list yields it, so a piece that cannot be constructed
\* raises before split_list can report unmatched delimiters
construct_list(internal_type, text) ==
    IF text = <<>> THEN Constructed(IndexError, PyNone)
    ELSE With(split_list(unwrap(text, "[", "]"), default_separator, FALSE), LAMBDA sub :
        With(construct_items([i \in 1..Len(sub.pieces) |-> internal_type],
                             sub.pieces, 1, <<>>),
             LAMBDA made :
                 IF made.raised # NoExc THEN made
                 ELSE IF sub.raised # NoExc THEN Constructed(sub.raised, PyNone)
                 ELSE Constructed(NoExc, PyList(made.value))))

\* construct_tuple(text) of _get_tuple_ctor
construct_tuple(internal_types, text) ==
    IF text = <<>> THEN Constructed(IndexError, PyNone)
    ELSE With(split_list(unwrap(text, "(", ")"), default_separator, FALSE), LAMBDA sub :
        IF sub.raised # NoExc THEN Constructed(sub.raised, PyNone)
        ELSE IF Len(sub.pieces) # Len(internal_types)
        THEN Constructed(Exc("TypeError", "mismatched lengths",
                             <<ToString(Len(sub.pieces)), ToString(Len(internal_types))>>),
                         PyNone)
        ELSE With(construct_items(internal_types, sub.pieces, 1, <<>>), LAMBDA made :
                 IF made.raised # NoExc THEN made
                 ELSE Constructed(NoExc, PyTuple(made.value))))

\* get_generic_constructor(annotation)(text)
get_generic_constructor(annotation, text) ==
    CASE annotation.generic = "List" ->
             IF Len(annotation.args) # 1
             THEN Constructed(Exc("TypeError", "List may only have one type parameter",
                                  <<>>), PyNone)
             ELSE construct_list(annotation.args[1], text)
      [] annotation.generic = "Tuple" -> construct_tuple(annotation.args, text)


\* _construct_arg(formal_param, value): a ValueError of the constructor is
\* raised again as Cmd.SyntaxError(e)
construct_arg(formal_param, value) ==
    With(get_constructor(formal_param.type, value), LAMBDA made :
        IF made.raised.cls = "ValueError"
        THEN [raised |-> Exc("SyntaxError", made.raised.msg, made.raised.key),
              value |-> PyNone]
        ELSE made)

\* `name in mapping` for a mapping kept as the sequence of its items
has_name(items, name) == \E i \in 1..Len(items) : items[i].name = name

\* formal[name]
formal_at(formal, name) == formal[CHOOSE i \in 1..Len(formal) : formal[i].name = name]

\* a line of output: the text and the values it names
Line(text, key) == [text |-> text, key |-> key]

\* typed_args in place of which an exception was raised; decoded lists the
\* parameters _construct_arg was called for, in the order of the calls
RaisedArgs(exc, out, decoded) ==
    [raised |-> exc, typed_args |-> <<>>, printed |-> out, decoded |-> decoded]

\* the loop of _assign_free_args without the test for a value already
\* present: the free value is decoded and assigned again
RECURSIVE assign_free_loop_overwriting(_, _, _, _, _, _)
assign_free_loop_overwriting(formal, result, free, i, out, decoded) ==
    IF i > Min(Len(formal), Len(free))
    THEN [raised |-> NoExc, typed_args |-> result, printed |-> out, decoded |-> decoded]
    ELSE With(construct_arg(formal[i], free[i]), LAMBDA made :
             IF made.raised # NoExc
             THEN RaisedArgs(made.raised, out, Append(decoded, formal[i].name))
             ELSE With(SelectSeq(result, LAMBDA a : a.name # formal[i].name)
                           \o <<[name |-> formal[i].name, value |-> made.value]>>,
                       LAMBDA extended :
                           assign_free_loop_overwriting(formal, extended, free, i + 1, out,
                                                        Append(decoded, formal[i].name))))

\* _assign_free_args(formal, actual, free): the `for name, value in
\* zip(formal, free)` loop at pair i
RECURSIVE assign_free_loop(_, _, _, _, _, _)
assign_free_loop(formal, result, free, i, out, decoded) ==
    IF i > Min(Len(formal), Len(free))
    THEN [raised |-> NoExc, typed_args |-> result, printed |-> out, decoded |-> decoded]
    ELSE IF has_name(result, formal[i].name)
    THEN RaisedArgs(Exc("SyntaxError", "cannot assign free argument: argument already present",
                        <<formal[i].name>>), out, decoded)
    ELSE With(construct_arg(formal[i], free[i]), LAMBDA made :
             IF made.raised # NoExc
             THEN RaisedArgs(made.raised, out, Append(decoded, formal[i].name))
             ELSE With(Append(result, [name |-> formal[i].name, value |-> made.value]),
                       LAMBDA extended :
                           assign_free_loop(formal, extended, free, i + 1, out,
                                            Append(decoded, formal[i].name))))

\* _assign_free_args matching the free values to the parameters last first
assign_free_args_reversed(formal, actual, free, out, decoded) ==
    IF Len(free) > Len(formal)
    THEN RaisedArgs(Exc("SyntaxError", "too many free arguments",
                        <<ToString(Len(formal))>>), out, decoded)
    ELSE assign_free_loop(formal, actual,
                          [i \in 1..Len(free) |-> free[Len(free) + 1 - i]], 1, out, decoded)

\* _assign_free_args matching the free values to the parameters that have
\* no value yet
assign_free_args_unbound(formal, actual, free, out, decoded) ==
    IF Len(free) > Len(formal)
    THEN RaisedArgs(Exc("SyntaxError", "too many free arguments",
                        <<ToString(Len(formal))>>), out, decoded)
    ELSE assign_free_loop(SelectSeq(formal, LAMBDA p : ~has_name(actual, p.name)),
                          actual, free, 1, out, decoded)

assign_free_args(formal, actual, free, out, decoded) ==
    IF Len(free) > Len(formal)
    THEN RaisedArgs(Exc("SyntaxError", "too many free arguments",
                        <<ToString(Len(formal))>>), out, decoded)
    ELSE assign_free_loop(formal, actual, free, 1, out, decoded)

\* _fill_default_args adding no default
fill_default_args_none(formal, result, i) == result

\* _fill_default_args(formal, actual), at formal parameter i
RECURSIVE fill_default_args(_, _, _)
fill_default_args(formal, result, i) ==
    IF i > Len(formal) THEN result
    ELSE IF ~has_name(result, formal[i].name) /\ formal[i].default # NO_DEFAULT
    THEN fill_default_args(formal,
                           Append(result, [name |-> formal[i].name,
                                           value |-> formal[i].default]),
                           i + 1)
    ELSE fill_default_args(formal, result, i + 1)

\* _construct_args(formal, named_args, free_args): the `for name, value in
\* named_args.items()` loop at item k, then the free and default arguments
RECURSIVE construct_args_loop(_, _, _, _, _, _, _, _)
construct_args_loop(formal, named, free, k, typed_args, extra_free, out, decoded) ==
    IF k > Len(named)
    THEN With(assign_free_args(formal, typed_args, free \o extra_free, out, decoded),
              LAMBDA assigned :
                  IF assigned.raised # NoExc THEN assigned
                  ELSE [assigned EXCEPT
                           !.typed_args = fill_default_args(formal, assigned.typed_args, 1)])
    ELSE IF ~has_name(formal, named[k].name)
    THEN With(Append(extra_free, named[k].name \o <<"=">> \o named[k].value),
              LAMBDA more_free :
                  With(Append(out, Line("unrecognized argument", <<named[k].name>>)),
                       LAMBDA more_out :
                           construct_args_loop(formal, named, free, k + 1, typed_args,
                                               more_free, more_out, decoded)))
    ELSE IF has_name(typed_args, named[k].name)
    THEN RaisedArgs(Exc("SyntaxError", "duplicate value for argument",
                        <<named[k].name>>), out, decoded)
    ELSE With(construct_arg(formal_at(formal, named[k].name), named[k].value),
              LAMBDA made :
                  IF made.raised # NoExc
                  THEN RaisedArgs(made.raised, out, Append(decoded, named[k].name))
                  ELSE With(Append(typed_args, [name |-> named[k].name,
                                                value |-> made.value]),
                            LAMBDA extended :
                                construct_args_loop(formal, named, free, k + 1, extended,
                                                    extra_free, out,
                                                    Append(decoded, named[k].name))))

\* _construct_args taking the named values by their position on the line
construct_args_by_position(formal, named, free) ==
    construct_args_loop(formal, <<>>, [i \in 1..Len(named) |-> named[i].value] \o free,
                        1, <<>>, <<>>, <<>>, <<>>)

construct_args(formal, named, free) ==
    construct_args_loop(formal, named, free, 1, <<>>, <<>>, <<>>, <<>>)

\* how a call ended: the exception or the value, what it printed and the
\* handlers it entered
Outcome(exc, value, out, calls) ==
    [raised |-> exc, value |-> value, printed |-> out, called |-> calls]

\* the parameters of the handler that typed_args leaves without a value
missing_args(cmd, typed_args) ==
    LET missing == SelectSeq(cmd.parameters, LAMBDA p : ~has_name(typed_args, p.name))
    IN [i \in 1..Len(missing) |-> missing[i].name]

\* cmd.handler(self, **typed_args): Python binds the arguments, then runs
\* the body of do_EOF, do_exit, do_get_error, do_help or do_test; do_help
\* calls choose_cmd(all_handlers, topic, verbose=True), one positional
\* argument more than choose_cmd takes
call_handler(cmd, typed_args, last_exc, out) ==
    LET entered == <<[name |-> cmd.name, args |-> typed_args]>>
    IN IF missing_args(cmd, typed_args) # <<>>
       THEN Outcome(Exc("TypeError", "missing required positional argument",
                        missing_args(cmd, typed_args)), PyNone, out, <<>>)
       ELSE CASE cmd.name = <<"E", "O", "F">> ->
                     Outcome(NoExc, PyTrue,
                             out \o <<Line("", <<>>), Line("exiting", <<>>)>>,
                             entered \o <<[name |-> <<"e", "x", "i", "t">>, args |-> <<>>]>>)
              [] cmd.name = <<"e", "x", "i", "t">> ->
                     Outcome(NoExc, PyTrue, Append(out, Line("exiting", <<>>)), entered)
              [] cmd.name = <<"g", "e", "t", "_", "e", "r", "r", "o", "r">> ->
                     Outcome(NoExc, PyNone,
                             Append(out, IF last_exc = NoExc
                                         THEN Line("no errors", <<>>)
                                         ELSE Line("traceback", <<last_exc>>)),
                             entered)
              [] cmd.name = <<"h", "e", "l", "p">> ->
                     Outcome(Exc("TypeError",
                                 "choose_cmd() got multiple values for argument 'verbose'",
                                 <<>>),
                             PyNone, out, entered)
              [] cmd.name = <<"t", "e", "s", "t">> ->
                     Outcome(NoExc, PyNone, out, entered)

\* _execute_cmd(command)
execute_cmd(command, last_exc) ==
    With(choose_cmd(command.command), LAMBDA chosen :
        IF chosen.raised # NoExc THEN Outcome(chosen.raised, PyNone, <<>>, <<>>)
        ELSE With(construct_args(chosen.cmd.parameters, command.named_args,
                                 command.free_args),
                  LAMBDA args :
                      IF args.raised # NoExc
                      THEN Outcome(args.raised, PyNone, args.printed, <<>>)
                      ELSE call_handler(chosen.cmd, args.typed_args, last_exc,
                                        args.printed)))

\* default without the print of its except branch
default_silent(line, last_exc) ==
    IF line = <<>>
    THEN [value |-> PyNone, last_exception |-> last_exc, printed |-> <<>>,
          called |-> <<>>]
    ELSE With(from_cmdline(line), LAMBDA command :
             With(IF command.raised # NoExc
                  THEN Outcome(command.raised, PyNone, <<>>, <<>>)
                  ELSE execute_cmd(command, last_exc),
                  LAMBDA done :
                      IF done.raised # NoExc
                      THEN [value |-> PyNone, last_exception |-> done.raised,
                            printed |-> done.printed, called |-> done.called]
                      ELSE [value |-> done.value, last_exception |-> last_exc,
                            printed |-> done.printed, called |-> done.called]))

\* default with an emptyline() that forgets the last exception
default_resetting(line, last_exc) ==
    IF line = <<>>
    THEN [value |-> PyNone, last_exception |-> NoExc, printed |-> <<>>,
          called |-> <<>>]
    ELSE With(from_cmdline(line), LAMBDA command :
             With(IF command.raised # NoExc
                  THEN Outcome(command.raised, PyNone, <<>>, <<>>)
                  ELSE execute_cmd(command, last_exc),
                  LAMBDA done :
                      IF done.raised # NoExc
                      THEN [value |-> PyNone, last_exception |-> done.raised,
                            printed |-> Append(done.printed,
                                               Line("%s (try \"get_error\" for details)",
                                                    <<done.raised>>)),
                            called |-> done.called]
                      ELSE [value |-> done.value, last_exception |-> last_exc,
                            printed |-> done.printed, called |-> done.called]))

\* default(cmdline): both paths of the try block return, so its else branch
\* never runs; the except branch stores and prints the exception
default(line, last_exc) ==
    IF line = <<>>
    THEN [value |-> PyNone, last_exception |-> last_exc, printed |-> <<>>,
          called |-> <<>>]
    ELSE With(from_cmdline(line), LAMBDA command :
             With(IF command.raised # NoExc
                  THEN Outcome(command.raised, PyNone, <<>>, <<>>)
                  ELSE execute_cmd(command, last_exc),
                  LAMBDA done :
                      IF done.raised # NoExc
                      THEN [value |-> PyNone, last_exception |-> done.raised,
                            printed |-> Append(done.printed,
                                               Line("%s (try \"get_error\" for details)",
                                                    <<done.raised>>)),
                            called |-> done.called]
                      ELSE [value |-> done.value, last_exception |-> last_exc,
                            printed |-> done.printed, called |-> done.called]))

\* MISSING_ARG, the value of a parameter that no argument was assigned to
MISSING_ARG == [type |-> "MissingArg", value |-> <<>>]

\* the least element of a set of indices, 0 for the empty set
first_of(S) == IF S = {} THEN 0 ELSE CHOOSE i \in S : \A j \in S : i <= j

\* the first loop of pop_arg: the index of the NamedArg called name
index_of_named(args, name) ==
    first_of({i \in 1..Len(args) : args[i].kind = "NamedArg" /\ args[i].name = name})

\* the second loop of pop_arg: the index of the first argument that is a
\* NamedArg for no parameter of the command, or a PositionalArg
index_of_free(args, parameters) ==
    first_of({i \in 1..Len(args) :
                 \/ args[i].kind = "NamedArg" /\ ~has_name(parameters, args[i].name)
                 \/ args[i].kind = "PositionalArg"})

\* args.pop(idx): the list without its element idx
pop_at(args, idx) == TakeN(args, idx - 1) \o DropN(args, idx)

\* pop_arg(name) of CommandLine.assign_args: the named argument of that name,
\* else the first argument that is positional or named for no parameter of
\* the command, announcing the latter; None when there is neither
pop_arg(args, name, parameters, out) ==
    With(index_of_named(args, name), LAMBDA own :
    IF own # 0
    THEN [found |-> TRUE, value |-> args[own].value, args |-> pop_at(args, own),
          printed |-> out]
    ELSE With(index_of_free(args, parameters), LAMBDA idx :
         IF idx = 0
         THEN [found |-> FALSE, value |-> <<>>, args |-> args, printed |-> out]
         ELSE [found |-> TRUE, value |-> args[idx].value, args |-> pop_at(args, idx),
               printed |-> IF args[idx].kind = "NamedArg"
                           THEN Append(out, Line("unrecognized argument",
                                                 <<args[idx].name>>))
                           ELSE out]))

\* assigned_args in place of which an exception was raised
RaisedAssigned(exc, out) == [raised |-> exc, assigned_args |-> <<>>, printed |-> out]

\* result[name] = value, for the mapping kept as the sequence of its items
set_item(items, name, value) ==
    [i \in 1..Len(items) |-> IF items[i].name = name
                             THEN [name |-> name, value |-> value]
                             ELSE items[i]]

\* CommandLine._assign_free_args(cmd, actual, free): the `for name, value in
\* zip(cmd.parameters, free)` loop at pair i; free holds the arguments that
\* assign_args left over, so the value stored is the argument itself
RECURSIVE cl_assign_free_loop(_, _, _, _, _)
cl_assign_free_loop(parameters, result, free, i, out) ==
    IF i > Min(Len(parameters), Len(free))
    THEN [raised |-> NoExc, assigned_args |-> result, printed |-> out]
    ELSE IF result[i].value # MISSING_ARG
    THEN RaisedAssigned(Exc("InvalidInput",
                            "cannot assign free argument: argument already present",
                            <<parameters[i].name>>), out)
    ELSE With(set_item(result, parameters[i].name,
                       [type |-> free[i].kind, value |-> free[i].value]),
              LAMBDA extended :
                  cl_assign_free_loop(parameters, extended, free, i + 1, out))

cl_assign_free_args(parameters, actual, free, out) ==
    IF Len(free) > Len(parameters)
    THEN RaisedAssigned(Exc("InvalidInput", "too many free arguments",
                            <<ToString(Len(parameters))>>), out)
    ELSE cl_assign_free_loop(parameters, actual, free, 1, out)

\* CommandLine.assign_args(cmd): the `for name in cmd.parameters` loop at
\* parameter i, then _assign_free_args with the arguments left
RECURSIVE assign_args_loop(_, _, _, _, _)
assign_args_loop(parameters, args, i, assigned_args, out) ==
    IF i > Len(parameters)
    THEN cl_assign_free_args(parameters, assigned_args, args, out)
    ELSE With(pop_arg(args, parameters[i].name, parameters, out), LAMBDA popped :
             With(Append(assigned_args,
                         [name |-> parameters[i].name,
                          value |-> IF popped.found THEN PyStr(popped.value)
                                    ELSE MISSING_ARG]),
                  LAMBDA extended :
                      assign_args_loop(parameters, popped.args, i + 1, extended,
                                       popped.printed)))

assign_args(c, cmd) == assign_args_loop(cmd.parameters, c.args, 1, <<>>, <<>>)

\* text.strip().split(maxsplit=1)[0], for a text that is not blank
RECURSIVE first_word(_)
first_word(t) ==
    IF t = <<>> \/ IsSpaceChar(Head(t)) THEN <<>>
    ELSE <<Head(t)>> \o first_word(Tail(t))

----------------------------------------------------------------------------
(* Cmd._expand_cmd (src/powercmd.py) *)

\* _get_all_cmds(): the names of the do_ methods of the older Cmd
get_all_cmds == {<<"E", "O", "F">>, <<"e", "x", "i", "t">>, <<"h", "e", "l", "p">>}

\* _expand_cmd(short_cmd, quiet)
expand_cmd(short_cmd) ==
    LET found == match_string(short_cmd, get_all_cmds)
    IN IF found.raised # "none"
       THEN [raised |-> Exc(found.raised, "", <<>>), name |-> <<>>]
       ELSE IF found.matches = <<>>
       THEN [raised |-> Exc("CancelCmd", "no such command", <<short_cmd>>), name |-> <<>>]
       ELSE IF Len(found.matches) > 1
       THEN [raised |-> Exc("CancelCmd", "ambigious command",
                            <<short_cmd>> \o found.matches),
             name |-> <<>>]
       ELSE [raised |-> NoExc, name |-> found.matches[1]]

----------------------------------------------------------------------------
(* CommandLine.get_current_arg (src/powercmd/command_line.py) *)

IncompleteArg(param, value) == [param |-> param, value |-> value]

\* None in place of an IncompleteArg
NoArg == [param |-> Parameter(<<>>, "", NO_DEFAULT), value |-> PyNone]

CurrentArg(exc, arg) == [raised |-> exc, arg |-> arg]

\* get_current_arg(cmd): first_unassigned and last_assigned are positions in
\* assigned_args, 0 for None
get_current_arg(c, cmd) ==
    With(assign_args(c, cmd), LAMBDA assigned :
        IF assigned.raised # NoExc THEN CurrentArg(assigned.raised, NoArg)
        ELSE LET items == assigned.assigned_args
                 missing == {i \in 1..Len(items) : items[i].value = MISSING_ARG}
                 present == {i \in 1..Len(items) : items[i].value # MISSING_ARG}
                 first_unassigned == first_of(missing)
                 last_assigned == IF present = {} THEN 0
                                  ELSE CHOOSE i \in present : \A j \in present : j <= i
             IN IF has_trailing_whitespace(c) = "True"
                THEN IF first_unassigned # 0
                     THEN CurrentArg(NoExc,
                                     IncompleteArg(formal_at(cmd.parameters,
                                                                items[first_unassigned].name),
                                                   PyStr(<<>>)))
                     ELSE CurrentArg(NoExc, NoArg)
                ELSE IF last_assigned # 0
                     THEN CurrentArg(NoExc,
                                     IncompleteArg(formal_at(cmd.parameters,
                                                                items[last_assigned].name),
                                                   items[last_assigned].value))
                     ELSE CurrentArg(NoExc, NoArg))

----------------------------------------------------------------------------
(* Completer (src/powercmd/completer.py) and CmdCompleter
   (src/powercmd/cmd.py), with the cursor at the end of the text *)

\* a type hint: a class, typing.List[...] or typing.Tuple[...]; origin is
\* __origin__ ("none" for a class) and args is __args__
Class(name) == [origin |-> "none", name |-> name, args |-> <<>>]
ListOf(inner_type) == [origin |-> "list", name |-> "List", args |-> <<inner_type>>]
TupleOf(inner_types) == [origin |-> "tuple", name |-> "Tuple", args |-> inner_types]

is_generic_list(annotation) == annotation.origin = "list"
is_generic_tuple(annotation) == annotation.origin = "tuple"
is_generic_type(annotation) == is_generic_list(annotation) \/ is_generic_tuple(annotation)

\* the members of the enums of test_completer.py, in definition order
enum_members(name) ==
    CASE name = "TestEnum" -> <<[name |-> <<"F", "i", "r", "s", "t">>, value |-> "1"],
                                [name |-> <<"S", "e", "c", "o", "n", "d">>, value |-> "2"]>>
      [] name = "TestEnum2" -> <<[name |-> <<"A">>, value |-> "1"],
                                 [name |-> <<"B">>, value |-> "2"]>>
      [] OTHER -> <<>>

\* issubclass(type_hint, enum.Enum)
is_enum(type_hint) == type_hint.name \in {"TestEnum", "TestEnum2"}

\* str(type) of a class
type_str(name) ==
    CASE name = "str" -> "<class 'str'>"
      [] name = "int" -> "<class 'int'>"
      [] name = "float" -> "<class 'float'>"
      [] name = "bool" -> "<class 'bool'>"
      [] OTHER -> name

Completion(text, start_position, display_meta) ==
    [text |-> text, start_position |-> start_position, display_meta |-> display_meta]

\* the completions a call gives, or the exception it raises
Completions(exc, items) == [raised |-> exc, completions |-> items]

\* _complete_enum(enum, incomplete_value)
complete_enum(enum, incomplete_value) ==
    LET values == enum_members(enum.name)
        matching_names == resolve(incomplete_value,
                                  {values[i].name : i \in 1..Len(values)})
        value_of(name) == values[CHOOSE i \in 1..Len(values) : values[i].name = name].value
    IN Completions(NoExc,
                   [i \in 1..Len(matching_names) |->
                       Completion(matching_names[i], 0 - Len(incomplete_value),
                                  value_of(matching_names[i]))])

\* CmdCompleter._complete_generic_tuple of cmd.py: its last line calls
\* self._complete_value(self, inner_types[len(args) - 1]), so that
\* _complete_value tests issubclass(self, enum.Enum) for the completer object
cmd_complete_generic_tuple(inner_types, incomplete_value) ==
    LET args == split_list(incomplete_value, default_separator, TRUE).pieces
    IN IF Len(args) > Len(inner_types) THEN Completions(NoExc, <<>>)
       ELSE Completions(Exc("TypeError", "issubclass() arg 1 must be a class", <<>>), <<>>)

\* _complete_value(type_hint, incomplete_value) of the completer of the given
\* class, with _complete_generic_list and _complete_generic_tuple
RECURSIVE complete_value(_, _, _)
complete_generic_list(completer, inner_type, incomplete_value) ==
    LET args == split_list(incomplete_value, default_separator, TRUE).pieces
    IN complete_value(completer, inner_type, args[Len(args)])

complete_generic_tuple(completer, inner_types, incomplete_value) ==
    IF completer = "CmdCompleter"
    THEN cmd_complete_generic_tuple(inner_types, incomplete_value)
    ELSE LET args == split_list(incomplete_value, default_separator, TRUE).pieces
         IN IF Len(args) > Len(inner_types) THEN Completions(NoExc, <<>>)
            ELSE complete_value(completer, inner_types[Len(args)], args[Len(args)])

complete_value(completer, type_hint, incomplete_value) ==
    IF is_generic_type(type_hint)
    THEN IF is_generic_list(type_hint)
         THEN complete_generic_list(completer, type_hint.args[1], incomplete_value)
         ELSE complete_generic_tuple(completer, type_hint.args, incomplete_value)
    ELSE IF is_enum(type_hint) THEN complete_enum(type_hint, incomplete_value)
    ELSE Completions(NoExc, <<Completion(<<>>, 0, type_str(type_hint.name))>>)

\* the first line of the handler's docstring, None without one
short_description(cmd) ==
    CASE cmd.name \in {<<"E", "O", "F">>, <<"e", "x", "i", "t">>} ->
             "Terminates the command loop."
      [] cmd.name = <<"g", "e", "t", "_", "e", "r", "r", "o", "r">> ->
             "Displays an exception thrown by last command."
      [] cmd.name = <<"h", "e", "l", "p">> ->
             "Displays a description of given command or lists all available commands."
      [] OTHER -> "None"

\* _complete_commands(incomplete_cmd)
complete_commands(incomplete_cmd) ==
    LET matching == resolve(incomplete_cmd, command_names(get_all_commands))
    IN Completions(NoExc,
                   [i \in 1..Len(matching) |->
                       Completion(matching[i], 0 - Len(incomplete_cmd),
                                  short_description(command_at(get_all_commands,
                                                               matching[i])))])

\* _complete_params(cmd, incomplete_param)
complete_params(cmd, incomplete_param) ==
    LET matching == resolve(incomplete_param,
                            {cmd.parameters[i].name : i \in 1..Len(cmd.parameters)})
    IN Completions(NoExc,
                   [i \in 1..Len(matching) |->
                       Completion(matching[i], 0 - Len(incomplete_param),
                                  type_str(formal_at(cmd.parameters, matching[i]).type))])

\* document.text[start:end] for the boundaries of the current WORD, cursor at
\* the end of the text: the characters after the last whitespace
RECURSIVE current_word_of(_)
current_word_of(text) ==
    IF text = <<>> \/ IsSpaceChar(text[Len(text)]) THEN <<>>
    ELSE Append(current_word_of(TakeN(text, Len(text) - 1)), text[Len(text)])

\* get_completions(document) of the completer of the given class
get_completions(completer, text) ==
    LET incomplete_cmd == IF strip(text) # <<>> THEN first_word(strip(text)) ELSE <<>>
        current_word == current_word_of(text)
        start == Len(text) - Len(current_word)
        current_word_is_command == strip(TakeN(text, start)) = <<>>
        chosen == choose_cmd(incomplete_cmd)
        eq == find_char(current_word, "=", 1)
        param_name == TakeN(current_word, eq - 1)
        incomplete_value == DropN(current_word, eq)
    IN IF current_word_is_command THEN complete_commands(incomplete_cmd)
       ELSE IF chosen.raised # NoExc THEN Completions(NoExc, <<>>)
       ELSE IF eq = 0 THEN complete_params(chosen.cmd, current_word)
       ELSE IF ~has_name(chosen.cmd.parameters, param_name) THEN Completions(NoExc, <<>>)
       ELSE complete_value(completer,
                           Class(formal_at(chosen.cmd.parameters, param_name).type),
                           incomplete_value)

----------------------------------------------------------------------------
(* One command typed to a Cmd just constructed *)

CmdAlphabet == {"e", "t", "x"}

\* the command words typed: every short word, and every full name
TypedCommands ==
    StringsUpTo(CmdAlphabet, MaxTypedLen) \cup command_names(get_all_commands)

ArgNames == {<<"f", "i", "r", "s", "t">>, <<"s", "e", "c", "o", "n", "d">>, <<"x">>}
ArgValues == {<<"a">>, <<"2">>}

\* the argument words typed: a value, or name=value
CmdArgWords == ArgValues \cup {n \o <<"=">> \o v : n \in ArgNames, v \in ArgValues}

CmdLines ==
    {c \o join_words(ws) : c \in TypedCommands, ws \in StringsUpTo(CmdArgWords, MaxCmdArgs)}

InitCmd ==
    /\ cmdline \in CmdLines
    /\ cl = NoResult
    /\ htw = "none"
    /\ ci = NoResult
    /\ short = <<>>
    /\ full = <<>>
    /\ strat_result = NoResult
    /\ IdleMatch
    /\ IdleCmd
    /\ IdleCodec
    /\ IdleLoop
    /\ IdleReg

\* onecmd(cmdline), which is default(cmdline)
OneCmd ==
    /\ ret = NoResult
    /\ \E done \in {default(cmdline, last_exception)} :
          /\ ret' = [op |-> "default", value |-> done.value]
          /\ last_exception' = done.last_exception
          /\ printed' = done.printed
          /\ called' = done.called
    /\ UNCHANGED <<loopVars, regVars, codecVars, stratVars, matchVars, tokVars>>

\* choose_cmd(incomplete_cmd), as the completer calls it for the first word
\* of the text
ChooseCmd ==
    /\ ret = NoResult
    /\ strip(cmdline) # <<>>
    /\ \E short_cmd \in {first_word(strip(cmdline))} :
       \E chosen \in {choose_cmd(short_cmd)} :
          ret' = [op |-> "choose_cmd", short_cmd |-> short_cmd,
                  raised |-> chosen.raised, cmd |-> chosen.cmd]
    /\ UNCHANGED <<loopVars, regVars, codecVars, stratVars, matchVars, tokVars, last_exception, called, printed>>

\* _expand_cmd(cmd) of the older Cmd, for the first word of the line
ExpandCmd ==
    /\ ret = NoResult
    /\ strip(cmdline) # <<>>
    /\ \E short_cmd \in {first_word(strip(cmdline))} :
       \E expanded \in {expand_cmd(short_cmd)} :
          ret' = [op |-> "_expand_cmd", short_cmd |-> short_cmd,
                  raised |-> expanded.raised, name |-> expanded.name]
    /\ UNCHANGED <<loopVars, regVars, codecVars, stratVars, matchVars, tokVars, last_exception, called, printed>>

\* CommandLine(cmdline).assign_args(cmd), for any command of the Cmd
AssignArgs ==
    /\ ret = NoResult
    /\ \E cmd \in Range(get_all_commands) :
       \E c \in {CommandLine_init(cmdline)} :
       \E assigned \in {IF c.raised # NoExc THEN RaisedAssigned(c.raised, <<>>)
                        ELSE assign_args(c, cmd)} :
          /\ cl' = c
          /\ ret' = [op |-> "assign_args", cmd |-> cmd, raised |-> assigned.raised,
                     assigned_args |-> assigned.assigned_args]
          /\ printed' = assigned.printed
    /\ UNCHANGED <<loopVars, regVars, codecVars, stratVars, matchVars, cmdline, htw, ci, last_exception, called>>

\* _construct_args(cmd.parameters, command.named_args, command.free_args) for
\* the invocation read off the line, for any command of the Cmd
ConstructArgs ==
    /\ ret = NoResult
    /\ \E command \in {from_cmdline(cmdline)} :
          /\ command.raised = NoExc
          /\ \E cmd \in Range(get_all_commands) :
             \E args \in {construct_args(cmd.parameters, command.named_args,
                                          command.free_args)} :
                /\ ci' = command
                /\ ret' = [op |-> "_construct_args", cmd |-> cmd, raised |-> args.raised,
                           typed_args |-> args.typed_args, decoded |-> args.decoded]
                /\ printed' = args.printed
    /\ UNCHANGED <<loopVars, regVars, codecVars, stratVars, matchVars, cmdline, cl, htw, last_exception, called>>

NextCmd == OneCmd \/ ChooseCmd \/ ExpandCmd \/ AssignArgs \/ ConstructArgs

SpecCmd == InitCmd /\ [][NextCmd]_vars

----------------------------------------------------------------------------
(* cmdloop of a Cmd just constructed: the prompt returns any line, or raises
   EOFError at the end of the input *)

\* the lines typed at the prompt: the empty line, the commands of Cmd, a
\* call of do_test, and lines that fail while they are split into words
\* ('test "a', 'test a=1 a=2'), resolved ('bogus', 'et'), bound
\* ('test a 2 2', 'test a') or decoded ('test a b'); 'e' is short for exit
SessionLines ==
    {<<>>,
     <<"e", "x", "i", "t">>,
     <<"E", "O", "F">>,
     <<"g", "e", "t", "_", "e", "r", "r", "o", "r">>,
     <<"h", "e", "l", "p">>,
     <<"t", "e", "s", "t", " ", "a", " ", "2">>,
     <<"t", "e", "s", "t", " ", "\"", "a">>,
     <<"t", "e", "s", "t", " ", "a", "=", "1", " ", "a", "=", "2">>,
     <<"b", "o", "g", "u", "s">>,
     <<"e">>,
     <<"e", "t">>,
     <<"t", "e", "s", "t", " ", "a", " ", "2", " ", "2">>,
     <<"t", "e", "s", "t", " ", "a">>,
     <<"t", "e", "s", "t", " ", "a", " ", "b">>}

InitLoop ==
    /\ loop = "prompt"
    /\ lines_read = 0
    /\ short = <<>>
    /\ full = <<>>
    /\ strat_result = NoResult
    /\ IdleMatch
    /\ IdleTok
    /\ IdleCmd
    /\ IdleCodec
    /\ IdleReg

\* one turn of the while loop of cmdloop: the prompt returns a line and
\* onecmd(cmd) runs it; what onecmd returns is dropped
ReadAndRun ==
    /\ loop = "prompt"
    /\ lines_read < MaxLines
    /\ \E line \in SessionLines :
       \E done \in {default(line, last_exception)} :
          /\ cmdline' = line
          /\ ci' = IF line = <<>> THEN ci ELSE from_cmdline(line)
          /\ ret' = [op |-> "onecmd", value |-> done.value]
          /\ last_exception' = done.last_exception
          /\ printed' = done.printed
          /\ called' = done.called
    /\ lines_read' = lines_read + 1
    /\ UNCHANGED <<loop, cl, htw, regVars, codecVars, stratVars, matchVars>>

\* the prompt raises EOFError, which cmdloop catches and returns
EndOfInput ==
    /\ loop = "prompt"
    /\ loop' = "returned"
    /\ UNCHANGED <<lines_read, regVars, codecVars, stratVars, matchVars, tokVars, cmdVars>>

NextLoop == ReadAndRun \/ EndOfInput

SpecLoop == InitLoop /\ [][NextLoop]_vars

----------------------------------------------------------------------------
(* Completing every bounded line, the cursor at its end *)

\* the command words typed: test, short for test, help, and no command
ComplCommands ==
    {<<"t", "e", "s", "t">>, <<"t">>, <<"h", "e", "l", "p">>, <<"x">>}

\* the end of the line: nothing, a blank, or a blank and the start of a word
ComplTails ==
    {<<>>, <<" ">>, <<" ", "f">>, <<" ", "s">>, <<" ", "s", "e">>, <<" ", "t">>,
     <<" ", "f", "i", "r", "s", "t", "=">>, <<" ", "x", "=">>}

ComplLines ==
    {c \o join_words(ws) \o t :
        c \in ComplCommands, ws \in StringsUpTo(CmdArgWords, MaxCmdArgs), t \in ComplTails}

Completers == {"Completer", "CmdCompleter"}

InitCompl ==
    /\ cmdline \in ComplLines
    /\ cl = NoResult
    /\ htw = "none"
    /\ ci = NoResult
    /\ short = <<>>
    /\ full = <<>>
    /\ strat_result = NoResult
    /\ IdleMatch
    /\ IdleCmd
    /\ IdleCodec
    /\ IdleLoop
    /\ IdleReg

\* get_completions(Document(text, cursor_position=len(text)))
GetCompletions ==
    /\ ret = NoResult
    /\ \E completer \in Completers :
       \E found \in {get_completions(completer, cmdline)} :
          ret' = [op |-> "get_completions", completer |-> completer,
                  raised |-> found.raised, completions |-> found.completions]
    /\ UNCHANGED <<loopVars, regVars, codecVars, stratVars, matchVars, tokVars,
                   last_exception, called, printed>>

\* CommandLine(cmdline).get_current_arg(cmd), for any command of the Cmd
GetCurrentArg ==
    /\ ret = NoResult
    /\ \E cmd \in Range(get_all_commands) :
       \E c \in {CommandLine_init(cmdline)} :
       \E current \in {IF c.raised # NoExc THEN CurrentArg(c.raised, NoArg)
                       ELSE get_current_arg(c, cmd)} :
          /\ cl' = c
          /\ ret' = [op |-> "get_current_arg", cmd |-> cmd, raised |-> current.raised,
                     arg |-> current.arg]
    /\ UNCHANGED <<loopVars, regVars, codecVars, stratVars, matchVars, cmdline, htw, ci,
                   last_exception, called, printed>>

NextCompl == GetCompletions \/ GetCurrentArg

SpecCompl == InitCompl /\ [][NextCompl]_vars

----------------------------------------------------------------------------
(* Cmd._get_all_commands (src/powercmd/cmd.py), for any subclass of Cmd *)

\* commands[cmd_name] = Command(name=cmd_name, handler=...) for a dict kept
\* as the list of its items; handler is the name of the method
set_command(commands, cmd_name, handler) ==
    IF has_name(commands, cmd_name)
    THEN [i \in 1..Len(commands) |->
             IF commands[i].name = cmd_name
             THEN [name |-> cmd_name, handler |-> handler]
             ELSE commands[i]]
    ELSE Append(commands, [name |-> cmd_name, handler |-> handler])

AllCommands(exc, commands) == [raised |-> exc, commands |-> commands]

\* the loops of _get_all_commands, at member i and prefix item j; names are
\* the callable members in the order of inspect.getmembers
RECURSIVE get_all_commands_loop(_, _, _, _, _)
get_all_commands_loop(names, items, i, j, commands) ==
    IF i > Len(names) THEN AllCommands(NoExc, commands)
    ELSE IF j > Len(items) THEN get_all_commands_loop(names, items, i + 1, 1, commands)
    ELSE IF ~startswith(names[i], items[j].prefix)
    THEN get_all_commands_loop(names, items, i, j + 1, commands)
    ELSE IF has_name(commands, items[j].substitution \o names[i])
    THEN AllCommands(Exc("AssertionError", "", <<>>), <<>>)
    ELSE get_all_commands_loop(names, items, i, j + 1,
                               set_command(commands,
                                           items[j].substitution
                                               \o DropN(names[i], Len(items[j].prefix)),
                                           names[i]))

\* _get_all_commands() of an object with the given callable members whose
\* get_command_prefixes returns the given items
get_all_commands_of(callables, items) ==
    get_all_commands_loop(sorted(callables), items, 1, 1, <<>>)

\* methods a subclass of Cmd defines
SubclassMethods ==
    {<<"d", "o", "_", "f", "o", "o">>, <<"c", "m", "d", "_", "f", "o", "o">>, <<"d", "o", "_", "b", "a", "r">>, <<"d", "o", "_", "d", "o", "_", "f", "o", "o">>, <<"c", "m", "d", "_", "b", "a", "r">>, <<"d", "o", "_", "c", "m", "d", "_", "f", "o", "o">>, <<"d", "o", "_", "t", "e", "s", "t">>}

\* what get_command_prefixes returns: that of Cmd, and overrides
PrefixMappings ==
    {get_command_prefixes,
     <<PrefixItem(<<"d", "o", "_">>, <<"!">>)>>,
     <<PrefixItem(<<"d", "o", "_">>, <<>>), PrefixItem(<<"c", "m", "d", "_">>, <<>>)>>,
     <<PrefixItem(<<"c", "m", "d", "_">>, <<>>), PrefixItem(<<"d", "o", "_">>, <<>>)>>,
     <<PrefixItem(<<"d", "o", "_">>, <<>>), PrefixItem(<<"c", "m", "d", "_">>, <<"!">>)>>,
     <<PrefixItem(<<"d", "o", "_">>, <<"d", "o", "_">>)>>}

InitReg ==
    /\ members \in {CmdMethods \cup defined : defined \in SubsetsUpTo(SubclassMethods, MaxMethods)}
    /\ prefixes \in PrefixMappings
    /\ short = <<>>
    /\ full = <<>>
    /\ strat_result = NoResult
    /\ IdleMatch
    /\ IdleTok
    /\ IdleCmd
    /\ IdleCodec
    /\ IdleLoop

\* self._get_all_commands()
GetAllCommands ==
    /\ ret = NoResult
    /\ \E found \in {get_all_commands_of(members, prefixes)} :
          ret' = [op |-> "get_all_commands", raised |-> found.raised,
                  commands |-> found.commands]
    /\ UNCHANGED <<loopVars, regVars, codecVars, stratVars, matchVars, tokVars,
                   last_exception, called, printed>>

NextReg == GetAllCommands

SpecReg == InitReg /\ [][NextReg]_vars

----------------------------------------------------------------------------
(* Splitting and constructing every bounded value text *)

CodecAlphabet == {"(", ")", "[", "]", ",", "3", "a", "\""}

\* texts of the docstrings and tests, and nested ones
ExampleTexts ==
    {<<"[", "[", "a", "]", ",", "b", "]", ",", "c">>,
     <<"(", "3", ",", "f", "o", "o", ")">>,
     <<"[", "3", ",", "1", "2", "]">>,
     <<"[", "[", "]", ",", "]">>,
     <<"(", "3", ",", "a", ")">>,
     <<"(", "(", "a", ")", ",", "3", ")">>}

\* texts typed for a bool parameter
BoolTexts ==
    {<<"0">>, <<"1">>, <<"0", "0">>, <<"n", "o">>,
     <<"f", "a", "l", "s", "e">>, <<"F", "a", "l", "s", "e">>,
     <<"F", "A", "L", "S", "E">>, <<"f", "A", "l", "S", "e">>,
     <<"t", "r", "u", "e">>, <<"T", "r", "u", "e">>,
     <<"f", "a", "l", "s", "e", "0">>, <<"f", "a", "l", "s">>}

\* values of List[TestEnum] and Tuple[TestEnum, TestEnum2] parameters under
\* completion (test_completer.py), and longer ones
CompletionTexts ==
    {<<"F">>, <<"S">>, <<"A">>, <<"B">>, <<"e">>,
     <<"F", "i", "r", "s", "t">>,
     <<"F", "i", "r", "s", "t", ",">>,
     <<"F", "i", "r", "s", "t", ",", "S">>,
     <<"F", "i", "r", "s", "t", ",", "A">>,
     <<"F", "i", "r", "s", "t", ",", "B">>,
     <<"F", "i", "r", "s", "t", ",", "A", ",">>,
     <<"F", "i", "r", "s", "t", ",", "A", ",", "B">>,
     <<"S", ",", "F">>, <<"S", ",", "F", ",">>, <<"F", ",", "B", ",", "A", ",">>,
     <<"(", "F", ",", "B", ")", ",", "A">>, <<"(", "F", ",">>, <<"[", "S", "]", ",", "F">>}

ValueTexts ==
    StringsUpTo(CodecAlphabet, MaxValueLen) \cup ExampleTexts \cup BoolTexts
        \cup CompletionTexts

\* the annotations of the parameters under completion
CompletionTypes ==
    {ListOf(Class("TestEnum")),
     TupleOf(<<Class("TestEnum"), Class("TestEnum2")>>),
     TupleOf(<<Class("TestEnum")>>),
     TupleOf(<<Class("str"), Class("TestEnum")>>),
     ListOf(Class("int"))}

\* the annotations of the tuple parameters
TupleTypes == {<<"str">>, <<"float", "str">>}

InitCodec ==
    /\ value_text \in ValueTexts
    /\ value_result = NoResult
    /\ short = <<>>
    /\ full = <<>>
    /\ strat_result = NoResult
    /\ IdleMatch
    /\ IdleTok
    /\ IdleCmd
    /\ IdleLoop
    /\ IdleReg

\* list(split_list(text))
SplitList ==
    /\ value_result = NoResult
    /\ \E sub \in {split_list(value_text, default_separator, FALSE)} :
          value_result' = [op |-> "split_list", allow_unmatched |-> FALSE,
                           raised |-> sub.raised, pieces |-> sub.pieces]
    /\ UNCHANGED <<loopVars, regVars, value_text, stratVars, matchVars, tokVars, cmdVars>>

\* list(split_list(text, allow_unmatched=True)), as the completer calls it
SplitListUnmatched ==
    /\ value_result = NoResult
    /\ \E sub \in {split_list(value_text, default_separator, TRUE)} :
          value_result' = [op |-> "split_list", allow_unmatched |-> TRUE,
                           raised |-> sub.raised, pieces |-> sub.pieces]
    /\ UNCHANGED <<loopVars, regVars, value_text, stratVars, matchVars, tokVars, cmdVars>>

\* get_constructor(typing.List[int])(text)
ConstructList ==
    /\ value_result = NoResult
    /\ \E made \in {get_generic_constructor(GenericList(<<"int">>), value_text)} :
          value_result' = [op |-> "construct_list", types |-> <<"int">>,
                           raised |-> made.raised, value |-> made.value]
    /\ UNCHANGED <<loopVars, regVars, value_text, stratVars, matchVars, tokVars, cmdVars>>

\* get_constructor(typing.Tuple[...])(text)
ConstructTuple ==
    /\ value_result = NoResult
    /\ \E types \in TupleTypes :
       \E made \in {get_generic_constructor(GenericTuple(types), value_text)} :
          value_result' = [op |-> "construct_tuple", types |-> types,
                           raised |-> made.raised, value |-> made.value]
    /\ UNCHANGED <<loopVars, regVars, value_text, stratVars, matchVars, tokVars, cmdVars>>

\* get_constructor(bool)(text)
ConstructBool ==
    /\ value_result = NoResult
    /\ \E made \in {get_constructor("bool", value_text)} :
          value_result' = [op |-> "construct_bool", raised |-> made.raised,
                           value |-> made.value]
    /\ UNCHANGED <<loopVars, regVars, value_text, stratVars, matchVars, tokVars, cmdVars>>

\* _complete_value(type_hint, incomplete_value) of either completer
CompleteValue ==
    /\ value_result = NoResult
    /\ \E completer \in Completers, type_hint \in CompletionTypes :
       \E found \in {complete_value(completer, type_hint, value_text)} :
          value_result' = [op |-> "complete_value", completer |-> completer,
                           type_hint |-> type_hint, raised |-> found.raised,
                           completions |-> found.completions]
    /\ UNCHANGED <<loopVars, regVars, value_text, stratVars, matchVars, tokVars, cmdVars>>

NextCodec ==
    \/ SplitList
    \/ SplitListUnmatched
    \/ ConstructList
    \/ ConstructTuple
    \/ ConstructBool
    \/ CompleteValue

SpecCodec == InitCodec /\ [][NextCodec]_vars

----------------------------------------------------------------------------
(* Claims about command resolution *)

\* what the matcher yields for the typed name
MatchesFor(short_cmd) == resolve(short_cmd, command_names(get_all_commands))

NoSuchCommand(short_cmd) == Exc("SyntaxError", "no such command", <<short_cmd>>)

Ambiguous(short_cmd) ==
    Exc("SyntaxError", "ambigious command", <<short_cmd>> \o MatchesFor(short_cmd))

\* C5: choose_cmd succeeds and returns the command iff the matcher yields
\* exactly one match for the typed name; zero matches fail with a 'no such
\* command' error, two or more with an 'ambiguous command' error listing the
\* matches; in both failure cases no handler is invoked.  The older
\* _expand_cmd returns a name only for exactly one match and invokes nothing.
C5_ResolutionOutcomes ==
    /\ ret.op = "choose_cmd"
           => LET m == MatchesFor(ret.short_cmd)
              IN /\ (ret.raised = NoExc) <=> (Len(m) = 1)
                 /\ Len(m) = 1 => ret.cmd.name = m[1]
                 /\ Len(m) = 0 => ret.raised = NoSuchCommand(ret.short_cmd)
                 /\ Len(m) > 1 => ret.raised = Ambiguous(ret.short_cmd)
                 /\ called = <<>>
    /\ (ret.op = "default" /\ cmdline # <<>> /\ from_cmdline(cmdline).raised = NoExc)
           => LET short_cmd == from_cmdline(cmdline).command
                  m == MatchesFor(short_cmd)
              IN /\ Len(m) = 0 => last_exception = NoSuchCommand(short_cmd) /\ called = <<>>
                 /\ Len(m) > 1 => last_exception = Ambiguous(short_cmd) /\ called = <<>>
                 /\ Len(m) = 1
                        => /\ last_exception.msg \notin {"no such command", "ambigious command"}
                           /\ called # <<>> => called[1].name = m[1]
    /\ ret.op = "_expand_cmd"
           => /\ ret.raised = NoExc
                     => LET found == match_string(ret.short_cmd, get_all_cmds)
                        IN found.raised = "none" /\ found.matches = <<ret.name>>
              /\ called = <<>>

\* a typed word that several commands match: the command fails as ambiguous
\* and no handler is entered
C5_Witness ==
    /\ ret.op = "default"
    /\ last_exception.msg = "ambigious command"
    /\ Len(last_exception.key) > 2
    /\ called = <<>>

----------------------------------------------------------------------------
(* Claims about binding arguments to parameters *)

\* the parameters that declare no default
Required(formal) == {formal[i].name : i \in {j \in 1..Len(formal) : formal[j].default = NO_DEFAULT}}

\* the names of a sequence of (name, value) items
NamesOf(items) == {items[i].name : i \in 1..Len(items)}

\* the value the items give for a name
ValueOf(items, name) == items[CHOOSE i \in 1..Len(items) : items[i].name = name].value

\* a text is a literal of a parameter type: any text for str, decimal digits
\* for int
IsLiteral(type, text) ==
    \/ type = "str"
    \/ type = "int" /\ text # <<>> /\ \A i \in 1..Len(text) : text[i] \in {"0", "1", "2", "3"}

RECURSIVE Decimal(_)
Decimal(text) ==
    IF text = <<>> THEN 0
    ELSE 10 * Decimal(TakeN(text, Len(text) - 1)) + (Ord(text[Len(text)]) - Ord("0"))

\* the value a literal stands for
Decoded(type, text) == IF type = "int" THEN PyInt(Decimal(text)) ELSE PyStr(text)

\* the error of a text that is no literal of the type
NotALiteral(text) ==
    Exc("SyntaxError", "invalid literal for int() with base 10", <<text>>)

\* the rearrangements of a sequence
Rearrangements(s) ==
    {[i \in 1..Len(s) |-> s[f[i]]] :
        f \in {g \in [1..Len(s) -> 1..Len(s)] : \A i, j \in 1..Len(s) : g[i] = g[j] => i = j}}

\* the line holds named arguments only, each for a parameter, and one for
\* each required parameter
NamedForEachRequired(formal, named, free) ==
    /\ free = <<>>
    /\ NamesOf(named) \subseteq NamesOf(formal)
    /\ Required(formal) \subseteq NamesOf(named)

\* every parameter with the decoded named value, else its default
BoundByName(formal, named) ==
    {[name |-> formal[i].name,
      value |-> IF formal[i].name \in NamesOf(named)
                THEN Decoded(formal[i].type, ValueOf(named, formal[i].name))
                ELSE formal[i].default] : i \in 1..Len(formal)}

\* the named values are literals of their parameters' types
NamedLiterals(formal, named) ==
    \A i \in 1..Len(named) :
        IsLiteral(formal_at(formal, named[i].name).type, named[i].value)

\* C11: for every command and every line that supplies a named argument for
\* each required parameter and no positional argument, binding succeeds with
\* every parameter bound to its named value or default (it fails only if a
\* supplied text is no literal of its parameter's type, with that decoding
\* error), and the outcome is the same for every permutation of the named
\* arguments: the same set of bound arguments or the same error.
C11_NamedOrderIrrelevant ==
    /\ (/\ ret.op = "_construct_args"
        /\ NamedForEachRequired(ret.cmd.parameters, ci.named_args, ci.free_args))
           => /\ IF NamedLiterals(ret.cmd.parameters, ci.named_args)
                 THEN /\ ret.raised = NoExc
                      /\ Range(ret.typed_args)
                            = BoundByName(ret.cmd.parameters, ci.named_args)
                      /\ Len(ret.typed_args) = Len(ret.cmd.parameters)
                 ELSE ret.raised.msg = "invalid literal for int() with base 10"
              /\ \A other \in Rearrangements(ci.named_args) :
                    LET again == construct_args(ret.cmd.parameters, other, <<>>)
                    IN /\ again.raised = ret.raised
                       /\ Range(again.typed_args) = Range(ret.typed_args)
    /\ (/\ ret.op = "default"
        /\ cmdline # <<>>
        /\ from_cmdline(cmdline).raised = NoExc
        /\ choose_cmd(from_cmdline(cmdline).command).raised = NoExc)
           => LET command == from_cmdline(cmdline)
                  formal == choose_cmd(command.command).cmd.parameters
              IN (/\ NamedForEachRequired(formal, command.named_args, command.free_args)
                  /\ NamedLiterals(formal, command.named_args))
                     => /\ called # <<>>
                        /\ Range(called[1].args) = BoundByName(formal, command.named_args)

\* test(first, second) given second= before first=: both are bound
C11_Witness ==
    /\ ret.op = "_construct_args"
    /\ ret.cmd.name = <<"t", "e", "s", "t">>
    /\ Len(ci.named_args) = 2
    /\ ci.named_args[1].name = <<"s", "e", "c", "o", "n", "d">>
    /\ ci.named_args[2].name = <<"f", "i", "r", "s", "t">>
    /\ ci.free_args = <<>>
    /\ ret.raised = NoExc
    /\ Len(ret.typed_args) = 2

\* the first n parameters with the decoded free values, and the defaults of
\* the later parameters that declare one
BoundByPosition(formal, free) ==
    {[name |-> formal[i].name, value |-> Decoded(formal[i].type, free[i])] :
        i \in 1..Len(free)}
    \cup {[name |-> formal[i].name, value |-> formal[i].default] :
            i \in {j \in (Len(free) + 1)..Len(formal) : formal[j].default # NO_DEFAULT}}

\* the later parameters that declare no default, in declaration order
LeftMissing(formal, n) ==
    LET later == SelectSeq([i \in 1..(Len(formal) - n) |-> formal[n + i]],
                           LAMBDA p : p.default = NO_DEFAULT)
    IN [i \in 1..Len(later) |-> later[i].name]

\* the first free value that is no literal of its parameter's type, 0 if none
FirstBadFree(formal, free) ==
    first_of({i \in 1..Len(free) : ~IsLiteral(formal[i].type, free[i])})

MissingArgument(names) ==
    Exc("TypeError", "missing required positional argument", names)

\* C12: for every command with k declared parameters and every n <= k, a
\* line with exactly n positional arguments and no named arguments binds the
\* i-th positional value to the i-th declared parameter for i = 1..n (a value
\* that is no literal of its parameter's type being that parameter's
\* decoding error), and leaves parameters n+1..k to their defaults or, in
\* Cmd, to a missing-argument failure before the handler body runs;
\* CommandLine.assign_args leaves them marked missing.
C12_PositionalFillsLeading ==
    /\ (/\ ret.op = "_construct_args"
        /\ ci.named_args = <<>>
        /\ Len(ci.free_args) <= Len(ret.cmd.parameters))
           => LET bad == FirstBadFree(ret.cmd.parameters, ci.free_args)
              IN IF bad = 0
                 THEN /\ ret.raised = NoExc
                      /\ Range(ret.typed_args)
                            = BoundByPosition(ret.cmd.parameters, ci.free_args)
                      /\ \A i \in 1..Len(ci.free_args) :
                            ret.typed_args[i].name = ret.cmd.parameters[i].name
                 ELSE ret.raised = NotALiteral(ci.free_args[bad])
    /\ (/\ ret.op = "assign_args"
        /\ cl.raised = NoExc
        /\ \A i \in 1..Len(cl.args) : cl.args[i].kind = "PositionalArg"
        /\ Len(cl.args) <= Len(ret.cmd.parameters))
           => /\ ret.raised = NoExc
              /\ printed = <<>>
              /\ ret.assigned_args
                    = [i \in 1..Len(ret.cmd.parameters) |->
                          [name |-> ret.cmd.parameters[i].name,
                           value |-> IF i <= Len(cl.args) THEN PyStr(cl.args[i].value)
                                     ELSE MISSING_ARG]]
    /\ (/\ ret.op = "default"
        /\ cmdline # <<>>
        /\ from_cmdline(cmdline).raised = NoExc
        /\ choose_cmd(from_cmdline(cmdline).command).raised = NoExc)
           => LET command == from_cmdline(cmdline)
                  formal == choose_cmd(command.command).cmd.parameters
              IN (/\ command.named_args = <<>>
                  /\ Len(command.free_args) <= Len(formal)
                  /\ FirstBadFree(formal, command.free_args) = 0)
                     => IF LeftMissing(formal, Len(command.free_args)) # <<>>
                        THEN /\ called = <<>>
                             /\ last_exception
                                   = MissingArgument(LeftMissing(formal,
                                                                 Len(command.free_args)))
                        ELSE /\ called # <<>>
                             /\ Range(called[1].args)
                                   = BoundByPosition(formal, command.free_args)

\* 'test a 2' enters the handler with first='a', second=2
C12_Witness ==
    /\ ret.op = "default"
    /\ from_cmdline(cmdline).free_args = <<<<"a">>, <<"2">>>>
    /\ from_cmdline(cmdline).named_args = <<>>
    /\ called = <<[name |-> <<"t", "e", "s", "t">>,
                   args |-> <<[name |-> <<"f", "i", "r", "s", "t">>, value |-> PyStr(<<"a">>)],
                              [name |-> <<"s", "e", "c", "o", "n", "d">>, value |-> PyInt(2)]>>]>>

TooManyArguments(cls, formal) ==
    Exc(cls, "too many free arguments", <<ToString(Len(formal))>>)

\* C13: a line with more positional arguments than the command has declared
\* parameters (and no named arguments) always fails with the
\* too-many-arguments error, which reports the number of declared parameters
\* as the maximum, whatever the texts are and however many parameters there
\* are; no other error is reported and no handler is entered.
C13_TooManyPositionalRejected ==
    /\ (/\ ret.op = "_construct_args"
        /\ ci.named_args = <<>>
        /\ Len(ci.free_args) > Len(ret.cmd.parameters))
           => ret.raised = TooManyArguments("SyntaxError", ret.cmd.parameters)
    /\ (/\ ret.op = "assign_args"
        /\ cl.raised = NoExc
        /\ \A i \in 1..Len(cl.args) : cl.args[i].kind = "PositionalArg"
        /\ Len(cl.args) > Len(ret.cmd.parameters))
           => ret.raised = TooManyArguments("InvalidInput", ret.cmd.parameters)
    /\ (/\ ret.op = "default"
        /\ cmdline # <<>>
        /\ from_cmdline(cmdline).raised = NoExc
        /\ choose_cmd(from_cmdline(cmdline).command).raised = NoExc)
           => LET command == from_cmdline(cmdline)
                  formal == choose_cmd(command.command).cmd.parameters
              IN (command.named_args = <<>> /\ Len(command.free_args) > Len(formal))
                     => /\ last_exception = TooManyArguments("SyntaxError", formal)
                        /\ called = <<>>

AlreadyPresent(cls, name) ==
    Exc(cls, "cannot assign free argument: argument already present", <<name>>)

\* the first of the leading parameters, one for each free value, that a named
\* argument has bound already; 0 if there is none
FirstClash(formal, named, free) ==
    first_of({i \in 1..Min(Len(formal), Len(free)) : formal[i].name \in NamesOf(named)})

\* the words of a line as typed
TypedLine(command, words) == command \o join_words(words)

\* C14: in Cmd, positional values are matched to the leading declared
\* parameters in declaration order, and if one of those leading parameters
\* is already bound by a named argument the invocation is rejected and the
\* handler is not called: 'test a second=2' on test(first, second) calls the
\* handler with first='a', second=2, while 'test first=a 2' calls no handler.
C14_PositionalTakesLeading ==
    /\ (/\ ret.op = "_construct_args"
        /\ NamesOf(ci.named_args) \subseteq NamesOf(ret.cmd.parameters)
        /\ NamedLiterals(ret.cmd.parameters, ci.named_args)
        /\ Len(ci.free_args) <= Len(ret.cmd.parameters))
           => LET formal == ret.cmd.parameters
                  clash == FirstClash(formal, ci.named_args, ci.free_args)
                  bad == FirstBadFree(formal, ci.free_args)
              IN IF clash # 0 /\ (bad = 0 \/ clash <= bad)
                 THEN ret.raised = AlreadyPresent("SyntaxError", formal[clash].name)
                 ELSE IF bad # 0
                 THEN ret.raised = NotALiteral(ci.free_args[bad])
                 ELSE /\ ret.raised = NoExc
                      /\ \A i \in 1..Len(ci.free_args) :
                            [name |-> formal[i].name,
                             value |-> Decoded(formal[i].type, ci.free_args[i])]
                                \in Range(ret.typed_args)
    /\ (/\ ret.op = "default"
        /\ cmdline # <<>>
        /\ from_cmdline(cmdline).raised = NoExc
        /\ choose_cmd(from_cmdline(cmdline).command).raised = NoExc)
           => LET command == from_cmdline(cmdline)
                  formal == choose_cmd(command.command).cmd.parameters
                  clash == FirstClash(formal, command.named_args, command.free_args)
              IN (/\ NamesOf(command.named_args) \subseteq NamesOf(formal)
                  /\ NamedLiterals(formal, command.named_args)
                  /\ Len(command.free_args) <= Len(formal)
                  /\ FirstBadFree(formal, command.free_args) = 0
                  /\ clash # 0)
                     => /\ called = <<>>
                        /\ last_exception = AlreadyPresent("SyntaxError", formal[clash].name)
    /\ (/\ ret.op = "default"
        /\ cmdline = TypedLine(<<"t", "e", "s", "t">>,
                               <<<<"a">>, <<"s", "e", "c", "o", "n", "d", "=", "2">>>>))
           => called = <<[name |-> <<"t", "e", "s", "t">>,
                          args |-> <<[name |-> <<"s", "e", "c", "o", "n", "d">>,
                                      value |-> PyInt(2)],
                                     [name |-> <<"f", "i", "r", "s", "t">>,
                                      value |-> PyStr(<<"a">>)]>>]>>
    /\ (/\ ret.op = "default"
        /\ cmdline = TypedLine(<<"t", "e", "s", "t">>,
                               <<<<"f", "i", "r", "s", "t", "=", "a">>, <<"2">>>>))
           => called = <<>>

\* 'test first=a 2': rejected, no handler entered
C14_Witness ==
    /\ ret.op = "default"
    /\ cmdline = TypedLine(<<"t", "e", "s", "t">>,
                           <<<<"f", "i", "r", "s", "t", "=", "a">>, <<"2">>>>)
    /\ last_exception = AlreadyPresent("SyntaxError", <<"f", "i", "r", "s", "t">>)
    /\ called = <<>>

\* the parameters that no named argument binds, in declaration order
NotBoundByName(formal, named) ==
    SelectSeq(formal, LAMBDA p : p.name \notin NamesOf(named))

\* the values of the positional tokens of a CommandLine, in line order
PositionalValues(args) ==
    LET pos == SelectSeq(args, LAMBDA arg : arg.kind = "PositionalArg")
    IN [i \in 1..Len(pos) |-> pos[i].value]

\* the named tokens of a CommandLine, in line order
NamedTokens(args) == SelectSeq(args, LAMBDA arg : arg.kind = "NamedArg")

\* every parameter bound by name with its named text, and the j-th parameter
\* not bound by name with the j-th positional text
TextFor(formal, named, free) ==
    LET open == NotBoundByName(formal, named)
    IN {[name |-> p.name, value |-> ValueOf(named, p.name)] :
            p \in {q \in Range(formal) : q.name \in NamesOf(named)}}
       \cup {[name |-> open[j].name, value |-> free[j]] :
                j \in 1..Min(Len(open), Len(free))}

\* C15: in binding, named tokens are claimed first; each positional value is
\* then consumed by the next declared parameter that was not bound by name
\* (name-bound parameters are skipped and never reassigned), so a line that
\* mixes named and positional arguments is bound whenever it has no more
\* positional values than parameters not bound by name, and fails only when
\* some parameter would receive two values.
C15_PositionalSkipsNamed ==
    /\ (/\ ret.op = "assign_args"
        /\ cl.raised = NoExc
        /\ NamesOf(NamedTokens(cl.args)) \subseteq NamesOf(ret.cmd.parameters))
           => LET formal == ret.cmd.parameters
                  named == NamedTokens(cl.args)
                  free == PositionalValues(cl.args)
              IN IF Len(free) <= Len(NotBoundByName(formal, named))
                 THEN /\ ret.raised = NoExc
                      /\ \A b \in TextFor(formal, named, free) :
                            [name |-> b.name, value |-> PyStr(b.value)]
                                \in Range(ret.assigned_args)
                      /\ \A i \in 1..Len(ret.assigned_args) :
                            ret.assigned_args[i].value # MISSING_ARG
                                => ret.assigned_args[i].name
                                      \in {b.name : b \in TextFor(formal, named, free)}
                 ELSE ret.raised # NoExc
    /\ (/\ ret.op = "_construct_args"
        /\ NamesOf(ci.named_args) \subseteq NamesOf(ret.cmd.parameters))
           => LET formal == ret.cmd.parameters
                  bound == TextFor(formal, ci.named_args, ci.free_args)
              IN IF Len(ci.free_args) <= Len(NotBoundByName(formal, ci.named_args))
                 THEN (\A b \in bound : IsLiteral(formal_at(formal, b.name).type, b.value))
                         => /\ ret.raised = NoExc
                            /\ \A b \in bound :
                                  [name |-> b.name,
                                   value |-> Decoded(formal_at(formal, b.name).type, b.value)]
                                      \in Range(ret.typed_args)
                 ELSE ret.raised # NoExc

\* the named items whose name is, or is not, a declared parameter
Recognized(formal, named) == SelectSeq(named, LAMBDA a : a.name \in NamesOf(formal))
Unrecognized(formal, named) == SelectSeq(named, LAMBDA a : a.name \notin NamesOf(formal))

\* one warning for each unrecognized item, in order
Warnings(items) ==
    [i \in 1..Len(items) |-> Line("unrecognized argument", <<items[i].name>>)]

\* C16: a named token whose name is not a declared parameter is not an
\* error: it is reported with an 'unrecognized argument' warning and demoted
\* to a positional value, and the demoted values are placed after all
\* original positional values, in their original relative order, when
\* positional values are assigned to parameters: the line is bound as the
\* line with the demoted values typed as positional values at its end.
C16_UnrecognizedDemotedLast ==
    /\ ret.op = "_construct_args"
           => LET formal == ret.cmd.parameters
                  demoted == Unrecognized(formal, ci.named_args)
                  texts == [i \in 1..Len(demoted) |->
                               demoted[i].name \o <<"=">> \o demoted[i].value]
                  same == construct_args(formal, Recognized(formal, ci.named_args),
                                         ci.free_args \o texts)
              IN /\ ret.raised = same.raised
                 /\ ret.typed_args = same.typed_args
                 /\ printed = TakeN(Warnings(demoted), Len(printed))
                 /\ ret.raised = NoExc => printed = Warnings(demoted)
    /\ (ret.op = "assign_args" /\ cl.raised = NoExc)
           => LET formal == ret.cmd.parameters
                  demoted == Unrecognized(formal, NamedTokens(cl.args))
                  values == [i \in 1..Len(demoted) |-> PositionalArg(demoted[i].value)]
                  original == SelectSeq(cl.args, LAMBDA arg :
                                  \/ arg.kind = "PositionalArg"
                                  \/ arg.name \in NamesOf(formal))
                  same == assign_args([cl EXCEPT !.args = original \o values], ret.cmd)
              IN /\ ret.raised = same.raised
                 /\ ret.assigned_args = same.assigned_args
                 /\ ret.raised = NoExc => printed = Warnings(demoted)

\* the free values Cmd assigns: the positional texts, then the demoted
\* named tokens as name=value texts
FreePool(formal, command) ==
    LET demoted == Unrecognized(formal, command.named_args)
    IN command.free_args
       \o [i \in 1..Len(demoted) |-> demoted[i].name \o <<"=">> \o demoted[i].value]

\* the index of a parameter in the declaration
IndexOf(formal, name) == CHOOSE i \in 1..Len(formal) : formal[i].name = name

\* the text supplied for a parameter: its named token, else the free value at
\* its position
Supplied(formal, command, name) ==
    \/ name \in NamesOf(command.named_args)
    \/ IndexOf(formal, name) <= Len(FreePool(formal, command))

SuppliedText(formal, command, name) ==
    IF name \in NamesOf(command.named_args) THEN ValueOf(command.named_args, name)
    ELSE FreePool(formal, command)[IndexOf(formal, name)]

\* the required parameters that are supplied no value, in declaration order
NotSupplied(formal, command) ==
    LET left == SelectSeq(formal, LAMBDA p : /\ p.default = NO_DEFAULT
                                             /\ ~Supplied(formal, command, p.name))
    IN [i \in 1..Len(left) |-> left[i].name]

\* a mapping of every parameter to the value decoded from its supplied text,
\* else to its default
CoversEveryParameter(formal, command, items) ==
    /\ Len(items) = Len(formal)
    /\ NamesOf(items) = NamesOf(formal)
    /\ \A i \in 1..Len(items) :
          LET p == formal_at(formal, items[i].name)
          IN items[i].value = IF Supplied(formal, command, p.name)
                              THEN Decoded(p.type, SuppliedText(formal, command, p.name))
                              ELSE p.default

\* C17: a successful binding maps every declared parameter to exactly one
\* value: the one decoded from its named token, else from a positional
\* token, else its declared default, a default never replacing a supplied
\* value; if some parameter without a default receives no value, the handler
\* body is not executed, and unless another error ends the binding first the
\* command fails with a missing-argument error naming the parameter.
C17_EveryParameterBoundOrMissing ==
    /\ (/\ ret.op = "default"
        /\ cmdline # <<>>
        /\ from_cmdline(cmdline).raised = NoExc
        /\ choose_cmd(from_cmdline(cmdline).command).raised = NoExc)
           => LET command == from_cmdline(cmdline)
                  formal == choose_cmd(command.command).cmd.parameters
                  args == construct_args(formal, command.named_args, command.free_args)
              IN /\ called # <<>> => CoversEveryParameter(formal, command, called[1].args)
                 /\ NotSupplied(formal, command) # <<>>
                       => /\ called = <<>>
                          /\ last_exception # NoExc
                          /\ args.raised = NoExc
                                => last_exception
                                      = MissingArgument(NotSupplied(formal, command))
                 /\ (args.raised = NoExc /\ NotSupplied(formal, command) = <<>>)
                       => called # <<>>
    /\ (ret.op = "_construct_args" /\ ret.raised = NoExc)
           => \A i \in 1..Len(ret.cmd.parameters) :
                 LET p == ret.cmd.parameters[i]
                     given == SelectSeq(ret.typed_args, LAMBDA a : a.name = p.name)
                 IN IF Supplied(ret.cmd.parameters, ci, p.name)
                    THEN given = <<[name |-> p.name,
                                    value |-> Decoded(p.type,
                                                      SuppliedText(ret.cmd.parameters,
                                                                   ci, p.name))]>>
                    ELSE IF p.default # NO_DEFAULT
                    THEN given = <<[name |-> p.name, value |-> p.default]>>
                    ELSE given = <<>>

\* 'test a': second receives no value, the command fails naming it and the
\* handler is not entered
C17_Witness ==
    /\ ret.op = "default"
    /\ from_cmdline(cmdline).command = <<"t", "e", "s", "t">>
    /\ from_cmdline(cmdline).free_args = <<<<"a">>>>
    /\ last_exception = MissingArgument(<<<<"s", "e", "c", "o", "n", "d">>>>)
    /\ called = <<>>

\* no element occurs twice in the sequence
NoRepeat(seq) == \A i, j \in 1..Len(seq) : seq[i] = seq[j] => i = j

\* the tokens of a CommandLine that are not named for a parameter, in line
\* order
FreeTokens(formal, args) ==
    SelectSeq(args, LAMBDA arg : \/ arg.kind = "PositionalArg"
                                 \/ arg.name \notin NamesOf(formal))

\* C18: for every line and parameter list, no parameter is decoded more than
\* once during one binding, and every argument token of the line is
\* accounted for: on a successful binding each token is bound to exactly one
\* parameter, each parameter holds at most one token, and each token named
\* for no parameter is reported as unrecognized; otherwise binding ends in an
\* error.
C18_DecodedOnceNothingDropped ==
    /\ ret.op = "_construct_args"
           => LET formal == ret.cmd.parameters
                  pool == FreePool(formal, ci)
                  named == Recognized(formal, ci.named_args)
              IN /\ NoRepeat(ret.decoded)
                 /\ ret.raised = NoExc
                       => /\ Len(ret.decoded) = Len(ci.named_args) + Len(ci.free_args)
                          /\ NoRepeat([i \in 1..Len(ret.typed_args) |->
                                          ret.typed_args[i].name])
                          /\ \A i \in 1..Len(named) :
                                [name |-> named[i].name,
                                 value |-> Decoded(formal_at(formal, named[i].name).type,
                                                   named[i].value)]
                                    \in Range(ret.typed_args)
                          /\ Len(pool) <= Len(formal)
                          /\ \A i \in 1..Len(pool) :
                                [name |-> formal[i].name,
                                 value |-> Decoded(formal[i].type, pool[i])]
                                    \in Range(ret.typed_args)
                          /\ printed = Warnings(Unrecognized(formal, ci.named_args))
    /\ (ret.op = "assign_args" /\ cl.raised = NoExc /\ ret.raised = NoExc)
           => LET formal == ret.cmd.parameters
                  named == Recognized(formal, NamedTokens(cl.args))
                  free == FreeTokens(formal, cl.args)
                  taken == SelectSeq(ret.assigned_args, LAMBDA a :
                               a.value # MISSING_ARG /\ a.name \notin NamesOf(named))
              IN /\ [i \in 1..Len(ret.assigned_args) |-> ret.assigned_args[i].name]
                       = [i \in 1..Len(formal) |-> formal[i].name]
                 /\ \A i \in 1..Len(named) :
                       [name |-> named[i].name, value |-> PyStr(named[i].value)]
                           \in Range(ret.assigned_args)
                 /\ [i \in 1..Len(taken) |-> taken[i].value]
                       = [i \in 1..Len(free) |-> PyStr(free[i].value)]
                 /\ printed = Warnings(SelectSeq(free, LAMBDA arg : arg.kind = "NamedArg"))

\* a named and a positional token bound to two parameters, each decoded once
C18_Witness ==
    /\ ret.op = "_construct_args"
    /\ ret.raised = NoExc
    /\ Len(ci.named_args) = 1
    /\ Len(ci.free_args) = 1
    /\ ret.decoded = <<<<"s", "e", "c", "o", "n", "d">>, <<"f", "i", "r", "s", "t">>>>
    /\ Len(ret.typed_args) = 2

----------------------------------------------------------------------------
(* Claims about decoding values *)

Openers == {"(", "[", "{", "\"", "'"}
Quotes == {"\"", "'"}

\* the closing delimiters awaited after one more character, delimiters
\* nesting inside brackets and parentheses and a quote running to the next
\* quote of its kind
Nest(stack, char) ==
    IF stack # <<>> /\ stack[Len(stack)] \in Quotes
    THEN IF char = stack[Len(stack)] THEN TakeN(stack, Len(stack) - 1) ELSE stack
    ELSE IF char \in Openers THEN Append(stack, closing_delimiter(char))
    ELSE IF stack # <<>> /\ char = stack[Len(stack)] THEN TakeN(stack, Len(stack) - 1)
    ELSE stack

\* the closing delimiters awaited after the first n characters of the text
RECURSIVE Awaited(_, _)
Awaited(text, n) == IF n = 0 THEN <<>> ELSE Nest(Awaited(text, n - 1), text[n])

\* every delimiter of the text is closed
Balanced(text) == Awaited(text, Len(text)) = <<>>

\* the positions of the separators that lie outside every delimiter pair
TopLevelSeparators(text) ==
    {i \in 1..Len(text) : text[i] = "," /\ Awaited(text, i - 1) = <<>>}

\* the text cut at the given positions
RECURSIVE CutAt(_, _, _)
CutAt(text, cuts, from) ==
    LET next == {i \in cuts : i >= from}
    IN IF next = {} THEN <<SubSeq(text, from, Len(text))>>
       ELSE LET i == first_of(next)
            IN <<SubSeq(text, from, i - 1)>> \o CutAt(text, cuts, i + 1)

\* C19: split_list splits the text at a separator only when that separator
\* lies outside every delimiter pair, at any nesting depth: for a text whose
\* delimiters are all closed, the pieces are the text cut at exactly the
\* commas outside brackets, parentheses and quotes, so a comma inside
\* delimiters nested within other delimiters ('[[a],b],c') starts no piece.
C19_SplitsOnlyOutsideDelimiters ==
    (value_result.op = "split_list" /\ Balanced(value_text))
        => /\ value_result.raised = NoExc
           /\ value_result.pieces = CutAt(value_text, TopLevelSeparators(value_text), 1)

Closers == {")", "]", "}"}

\* a closing bracket or parenthesis, outside quotes, that closes nothing
StrayCloser(text) ==
    \E i \in 1..Len(text) :
        LET stack == Awaited(text, i - 1)
        IN /\ text[i] \in Closers
           /\ stack = <<>> \/ stack[Len(stack)] \notin (Quotes \cup {text[i]})

\* some delimiter of the text is never closed, or closes nothing
Unmatched(text) == ~Balanced(text) \/ StrayCloser(text)

\* the pieces with the separator put back between them
RECURSIVE Joined(_)
Joined(pieces) ==
    IF Len(pieces) <= 1 THEN (IF pieces = <<>> THEN <<>> ELSE pieces[1])
    ELSE pieces[1] \o default_separator \o Joined(Tail(pieces))

\* C28: split_list with allow_unmatched=False fails with an error whenever
\* the text contains an unmatched delimiter (an opening delimiter never
\* closed, or a closing delimiter with no opener); with allow_unmatched=True
\* it never fails for that reason and still yields the pieces, the last one
\* being the remainder of the text, complete or not.
C28_UnmatchedDelimiters ==
    /\ (value_result.op = "split_list" /\ ~value_result.allow_unmatched
            /\ Unmatched(value_text))
           => value_result.raised.cls = "ValueError"
    /\ (value_result.op = "split_list" /\ value_result.allow_unmatched)
           => /\ value_result.raised = NoExc
              /\ value_result.pieces # <<>>
              /\ Joined(value_result.pieces) = value_text

\* the text without one enclosing pair of parentheses, if it has one
WithoutParentheses(text) ==
    IF Len(text) >= 2 /\ text[1] = "(" /\ text[Len(text)] = ")"
    THEN SubSeq(text, 2, Len(text) - 1)
    ELSE text

ArityError(pieces, types) ==
    Exc("TypeError", "mismatched lengths", <<ToString(Len(pieces)), ToString(Len(types))>>)

\* the first piece its element type cannot decode, 0 if there is none
FirstBadPiece(types, pieces) ==
    first_of({i \in 1..Len(pieces) : get_constructor(types[i], pieces[i]).raised # NoExc})

\* C20: decoding the text of a Tuple with declared arity n strips one
\* optional enclosing '(' ')' pair, splits the rest with the list split
\* algorithm (whose error for unmatched delimiters ends the decoding), fails
\* with an arity error when the number of pieces differs from n, and
\* otherwise decodes the i-th piece with the i-th declared element type, the
\* first piece that cannot be decoded being the error: '(3,foo)' as
\* Tuple[float, str] gives (3.0, 'foo').
C20_TupleDecoding ==
    /\ value_result.op = "construct_tuple"
           => LET types == value_result.types
                  sub == split_list(WithoutParentheses(value_text), default_separator, FALSE)
                  bad == FirstBadPiece(types, sub.pieces)
              IN IF sub.raised # NoExc THEN value_result.raised = sub.raised
                 ELSE IF Len(sub.pieces) # Len(types)
                 THEN value_result.raised = ArityError(sub.pieces, types)
                 ELSE IF bad # 0
                 THEN value_result.raised
                         = get_constructor(types[bad], sub.pieces[bad]).raised
                 ELSE /\ value_result.raised = NoExc
                      /\ value_result.value
                            = PyTuple([i \in 1..Len(types) |->
                                          get_constructor(types[i], sub.pieces[i]).value])
    /\ (/\ value_result.op = "construct_tuple"
        /\ value_result.types = <<"float", "str">>
        /\ value_text = <<"(", "3", ",", "f", "o", "o", ")">>)
           => value_result.value = PyTuple(<<PyFloat(3), PyStr(<<"f", "o", "o">>)>>)

\* the lower-case letter of a letter of BoolTexts
Lower(c) ==
    CASE c = "A" -> "a" [] c = "E" -> "e" [] c = "F" -> "f" [] c = "L" -> "l"
      [] c = "S" -> "s" [] c = "T" -> "t" [] OTHER -> c

LowerCase(text) == [i \in 1..Len(text) |-> Lower(text[i])]

\* C21: decoding a boolean parameter yields false for the texts '', '0' and
\* 'false' in any letter case ('FALSE', 'fAlSe'), and true for every other
\* text; it never fails.
C21_BoolDecoding ==
    value_result.op = "construct_bool"
        => /\ value_result.raised = NoExc
           /\ value_result.value
                 = IF LowerCase(value_text) \in {<<>>, <<"0">>, <<"f", "a", "l", "s", "e">>}
                   THEN PyFalse ELSE PyTrue

----------------------------------------------------------------------------
(* Claims about the command loop *)

\* the step reads a line at the prompt and runs it
LineRun == lines_read' = lines_read + 1

\* the exception that ends a line before the body of any handler runs:
\* while the line is split into words, the command resolved, the arguments
\* bound and decoded; NoExc if there is none
PipelineFailure(line) ==
    LET command == from_cmdline(line)
        chosen == choose_cmd(command.command)
        args == construct_args(chosen.cmd.parameters, command.named_args,
                               command.free_args)
    IN IF command.raised # NoExc THEN command.raised
       ELSE IF chosen.raised # NoExc THEN chosen.raised
       ELSE IF args.raised # NoExc THEN args.raised
       ELSE IF missing_args(chosen.cmd, args.typed_args) # <<>>
       THEN MissingArgument(missing_args(chosen.cmd, args.typed_args))
       ELSE NoExc

ErrorReport(exc) == Line("%s (try \"get_error\" for details)", <<exc>>)

EntersHandler(calls, name) == \E i \in 1..Len(calls) : calls[i].name = name

\* C22 as stated: a failure while a line is split into words, resolved, bound
\* or decoded aborts only that line: the error is reported, no handler is
\* invoked for the line, the command loop keeps running, and every following
\* line is processed exactly as if the failing line had not been entered.
C22_FailureAbortsOnlyThatLineAsStated ==
    [][(LineRun /\ cmdline' # <<>> /\ PipelineFailure(cmdline') # NoExc)
          => /\ printed' # <<>>
             /\ printed'[Len(printed')] = ErrorReport(PipelineFailure(cmdline'))
             /\ called' = <<>>
             /\ loop' = "prompt"
             /\ \A next \in SessionLines :
                    default(next, last_exception') = default(next, last_exception)]_vars

\* C22 amended: a failure while a line is split into words, resolved, bound
\* or decoded aborts only that line: the error is reported, no handler is
\* invoked for the line, the command loop keeps running, and every following
\* line is processed exactly as if the failing line had not been entered
\* except for the stored last exception and what get_error prints of it.
C22_FailureAbortsOnlyThatLineAmended ==
    [][(LineRun /\ cmdline' # <<>> /\ PipelineFailure(cmdline') # NoExc)
          => /\ printed' # <<>>
             /\ printed'[Len(printed')] = ErrorReport(PipelineFailure(cmdline'))
             /\ called' = <<>>
             /\ loop' = "prompt"
             /\ \A next \in SessionLines :
                    LET after == default(next, last_exception')
                        without == default(next, last_exception)
                    IN /\ after.value = without.value
                       /\ after.called = without.called
                       /\ after.printed # without.printed
                             => EntersHandler(after.called,
                                              <<"g", "e", "t", "_", "e", "r", "r", "o", "r">>)]_vars

\* a second or later line has failed before its handler and the loop is at
\* its prompt again
C22_Witness ==
    /\ ret.op = "onecmd"
    /\ lines_read >= 2
    /\ loop = "prompt"
    /\ PipelineFailure(cmdline) # NoExc
    /\ last_exception = PipelineFailure(cmdline)
    /\ called = <<>>

\* C25: executing the exit command (or the EOF command) terminates the
\* command loop: once the handler do_exit has returned, no further input line
\* is read or executed.
C25_ExitEndsLoop ==
    [][(ret.op = "onecmd" /\ EntersHandler(called, <<"e", "x", "i", "t">>))
          => ~LineRun]_vars

\* the exception a line ends with, NoExc if it completes without one
FailureOf(line, last_exc) ==
    IF from_cmdline(line).raised # NoExc THEN from_cmdline(line).raised
    ELSE execute_cmd(from_cmdline(line), last_exc).raised

\* C26: after any sequence of executed lines the stored last exception is the
\* exception raised by the most recently executed non-empty line if that line
\* failed, and None if it completed without an exception; an empty line
\* leaves it as it is.
C26_LastExceptionOfLastLine ==
    [][LineRun
          => last_exception' = IF cmdline' = <<>> THEN last_exception
                               ELSE FailureOf(cmdline', last_exception)]_vars

\* C27: submitting an empty line has no side effects: nothing is split into
\* words, no command is resolved, no handler is invoked, nothing is printed,
\* and the stored last exception and the rest of the interpreter's state are
\* left unchanged.
C27_EmptyLineNoSideEffects ==
    [][(LineRun /\ cmdline' = <<>>)
          => /\ last_exception' = last_exception
             /\ called' = <<>>
             /\ printed' = <<>>
             /\ ci' = ci
             /\ cl' = cl
             /\ loop' = loop
             /\ ret'.value = PyNone]_vars

\* an empty line has been submitted while an exception is stored
C27_Witness ==
    /\ ret.op = "onecmd"
    /\ cmdline = <<>>
    /\ lines_read >= 2
    /\ last_exception # NoExc
    /\ called = <<>>

----------------------------------------------------------------------------
(* Claims about completion *)

\* the line up to the word the cursor is on
EarlierTokens(text) == TakeN(text, Len(text) - Len(current_word_of(text)))

\* the cursor is on an argument word that holds no '=': the command word is
\* complete and names one command
OnParameterName(text) ==
    /\ strip(EarlierTokens(text)) # <<>>
    /\ find_char(current_word_of(text), "=", 1) = 0
    /\ choose_cmd(first_word(strip(text))).raised = NoExc

\* the names of the parameters of cmd that the tokens of the text bind, by
\* name or by position
BoundBy(text, cmd) ==
    LET assigned == assign_args(CommandLine_init(text), cmd)
    IN IF assigned.raised # NoExc THEN {}
       ELSE {assigned.assigned_args[i].name :
                i \in {j \in 1..Len(assigned.assigned_args) :
                           assigned.assigned_args[j].value # MISSING_ARG}}

\* C23: when the cursor is on an argument word with no '=', no completion
\* offered names a parameter that an earlier token of the line has bound
C23_UnassignedParametersOnly ==
    (ret.op = "get_completions" /\ ret.raised = NoExc /\ OnParameterName(cmdline))
        => \A i \in 1..Len(ret.completions) :
               ret.completions[i].text
                   \notin BoundBy(EarlierTokens(cmdline),
                                  choose_cmd(first_word(strip(cmdline))).cmd)

\* the case of C23 with completions offered next to bound parameters
C23_Case ==
    /\ ret.op = "get_completions"
    /\ OnParameterName(cmdline)
    /\ ret.completions # <<>>
    /\ BoundBy(EarlierTokens(cmdline), choose_cmd(first_word(strip(cmdline))).cmd) # {}

----------------------------------------------------------------------------
(* Claims about the current argument *)

\* the line ends in whitespace
EndsInWhitespace(line) == line # <<>> /\ IsSpaceChar(line[Len(line)])

\* the value of a token: what follows its first '=' when it names a
\* parameter, the token itself when it is positional
TokenValue(w) ==
    IF find_char(w, "=", 1) # 0 THEN split_name_value(w).value ELSE w

\* the parameter the last token of the line is bound to: the one it names,
\* or, for a positional token and for one that names no parameter of the
\* command, the one that the other tokens leave unbound and that is bound
\* once the token is typed
LastTokenParameters(line, cmd) ==
    LET w == current_word_of(line)
    IN IF find_char(w, "=", 1) # 0 /\ has_name(cmd.parameters, split_name_value(w).name)
       THEN {split_name_value(w).name}
       ELSE BoundBy(line, cmd) \ BoundBy(EarlierTokens(line), cmd)

\* C29: on a line that ends in whitespace get_current_arg gives the first
\* parameter with no value and the empty value, or nothing when every
\* parameter has one; on any other line it gives the parameter the last
\* token typed is bound to, and the value of that token
C29_CurrentArg ==
    (ret.op = "get_current_arg" /\ ret.raised = NoExc)
        => LET bound == BoundBy(cmdline, ret.cmd)
               unbound == {i \in 1..Len(ret.cmd.parameters) :
                              ret.cmd.parameters[i].name \notin bound}
           IN IF EndsInWhitespace(cmdline)
              THEN IF unbound = {} THEN ret.arg = NoArg
                   ELSE ret.arg = IncompleteArg(ret.cmd.parameters[first_of(unbound)],
                                                PyStr(<<>>))
              ELSE Len(cl.quoted_words) > 1
                      => /\ ret.arg.param.name \in LastTokenParameters(cmdline, ret.cmd)
                         /\ ret.arg.value = PyStr(TokenValue(current_word_of(cmdline)))

----------------------------------------------------------------------------
(* Claims about the completion of List and Tuple values *)

\* the comma-separated elements typed so far, the last possibly empty
TypedElements(text) == CutAt(text, TopLevelSeparators(text), 1)

\* what _complete_value gave
Given(result) == Completions(result.raised, result.completions)

\* C24: completing a Tuple value of which k elements are typed gives the
\* completions of the k-th declared element type for the text of the last
\* element, and none when k exceeds the arity of the tuple; completing a
\* List value gives the completions of the inner type for the text of the
\* last element
C24_GenericValueCompletion ==
    value_result.op = "complete_value"
        => LET elements == TypedElements(value_text)
               k == Len(elements)
               types == value_result.type_hint.args
           IN IF is_generic_tuple(value_result.type_hint)
              THEN IF k > Len(types)
                   THEN Given(value_result) = Completions(NoExc, <<>>)
                   ELSE Given(value_result)
                            = complete_value(value_result.completer, types[k], elements[k])
              ELSE Given(value_result)
                       = complete_value(value_result.completer, types[1], elements[k])

----------------------------------------------------------------------------
(* Claims about the registered commands *)

\* the handler methods that the prefixes turn into the command name
MethodsNamed(cmd_name) ==
    {m \in members :
        \E j \in 1..Len(prefixes) :
            /\ startswith(m, prefixes[j].prefix)
            /\ prefixes[j].substitution \o DropN(m, Len(prefixes[j].prefix)) = cmd_name}

\* C30: when _get_all_commands returns, every command name of the mapping
\* comes from exactly one handler method; two methods that the prefixes
\* turn into one name make the call fail
C30_NoSilentNameCollision ==
    (ret.op = "get_all_commands" /\ ret.raised = NoExc)
        => \A i \in 1..Len(ret.commands) :
               Cardinality(MethodsNamed(ret.commands[i].name)) = 1

====
